---- MODULE Spec2Model ----
(***************************************************************************)
(* Model of the engine lifecycle (initialize_model, is_model_ready, the    *)
(* lazy initialisation of TransformersProvider.chat) and of the streaming  *)
(* bridge (_chat_stream) of app/providers/transformers_provider.py.        *)
(***************************************************************************)
EXTENDS Integers, Sequences, FiniteSets, TLC

\* ---------------------------------------------------------------- bounds
NumThreads == 2
MaxLoads == 2
MaxTokens == 3
MaxPieces == 2
MaxPrompt == 2
MaxWords == 2
MaxCalls == 3
MaxSteps == 5
MaxHeader == 3
MaxMessages == 2
MaxChats == 2
MaxParts == 3

Threads == 1..NumThreads

\* ------------------------------------------------------ program constants
MODEL_INIT_TIMEOUT_SECONDS == 300
MODEL_INIT_WAIT_INTERVAL_SECONDS == 1

None == 0
NoThread == 0

VARIABLES
    model,          \* global model: None or the id of the load that made it
    tokenizer,      \* global tokenizer: None or the id of the load that made it
    _init_lock,     \* holder of the threading.Lock, NoThread when free
    _initializing,  \* global flag
    _initialized,   \* global flag
    pc,             \* position of every thread
    op,             \* operation a thread is running: "init", "chat", "ready"
    force_reload,   \* argument of the thread's initialize_model call
    result,         \* outcome of the thread's last finished operation
    loads,          \* number of load attempts started so far
    loaded,         \* the thread's current call executed the load section
    cohort,         \* threads whose initialize_model(False) call began Uninitialized
    startedReady,   \* the thread's initialize_model call began in state Ready
    waited,         \* polling intervals a thread has spent blocked on the lock
    stream_pc,      \* position of the _chat_stream generator (the consumer)
    worker_pc,      \* position of generation_thread
    text_queue,     \* streamer.text_queue: decoded increments and the stop signal
    produced,       \* number of increments the worker has written
    generated_text, \* increments accumulated by the consumer
    emitted,        \* frames yielded to the client so far
    exc_pending,    \* the finally block of _chat_stream runs on an exception
    stats,          \* number of record_request calls made by the job
    max_tokens,     \* the request's max_tokens
    gen_eos,        \* the generation ended with an end-of-sequence token
    completion_tokens, \* completion_tokens of the job's RequestStats
    finish_reason,  \* finish_reason of the job's RequestStats, "none" before
    handles_used,   \* values of the globals model, tokenizer the job has used
    started_ready,  \* the engine was Ready when the streaming job started
    engine_caller,  \* the thread that last called model.generate
    resp_pc,        \* position of the _generate_response call
    raw_text,       \* the text the engine generates, as segments
    outputs,        \* the ids the engine generates after the prompt
    tools,          \* names of the tools the request declares
    json_output_required,
    prompt_tokens,
    generated_ids,
    response,       \* the chat.completion returned
    resp_stats,     \* the RequestStats recorded
    resp_error,     \* the exception that left _generate_response
    err_pc,         \* position of an endpoint whose call has raised
    exception,      \* the exception that reached the endpoint
    client_status,  \* status code of the endpoint's answer
    client_message, \* message of the endpoint's answer
    st_lock,        \* StatsTracker._lock: its holder or NoThread
    st_pc,          \* position of each thread inside the StatsTracker
    st_arg,         \* the RequestStats each thread is recording
    st_stats,       \* StatsTracker._stats, the AggregateStats
    st_result,      \* what get_stats last returned to each thread
    st_completed,   \* record_request calls completed since the last reset
    st_calls,       \* calls made on the tracker so far
    rl_requests,    \* SimpleRateLimiter._requests_by_ip
    rl_last_cleanup,\* SimpleRateLimiter._last_cleanup
    rl_now,         \* time.time(), in seconds
    rl_allowed,     \* per IP, the times of all its allowed requests
    rl_last,        \* the last request the middleware handled
    rl_steps,       \* requests handled and clock advances so far
    auth_key,       \* settings.service_api_key
    auth_request,   \* the request api_key_guard is handling
    auth_pc,        \* where api_key_guard is
    auth_status,    \* status of the response the client gets
    auth_next_calls,\* calls of call_next made for the request
    cm_payload,     \* the payload object the caller hands to chat()
    cm_before,      \* payload["messages"] as the caller built it
    cm_prompts,     \* the message lists chat() gave to the chat template
    loc_history,    \* a message list and its successive locale injections
    ex_text,        \* the text handed to _extract_json_from_text
    ex_pc,          \* "created" before the call, "done" after it
    ex_result       \* the string the call returned

lifeVars == <<model, tokenizer, _init_lock, _initializing, _initialized, pc, op,
              force_reload, result, loads, loaded, cohort, startedReady, waited>>

streamVars == <<stream_pc, worker_pc, text_queue, produced, generated_text,
                emitted, exc_pending, stats, max_tokens, gen_eos,
                completion_tokens, finish_reason, handles_used, started_ready>>

respInputs == <<raw_text, outputs, tools, json_output_required, prompt_tokens>>

respVars == <<engine_caller, resp_pc, respInputs, generated_ids, response,
              resp_stats, resp_error>>

errVars == <<err_pc, exception, client_status, client_message>>

statVars == <<st_lock, st_pc, st_arg, st_stats, st_result, st_completed,
              st_calls>>

rateVars == <<rl_requests, rl_last_cleanup, rl_now, rl_allowed, rl_last, rl_steps>>

authVars == <<auth_key, auth_request, auth_pc, auth_status, auth_next_calls>>

composeVars == <<cm_payload, cm_before, cm_prompts, loc_history>>

extractVars == <<ex_text, ex_pc, ex_result>>

auxVars == <<errVars, statVars, rateVars, authVars, composeVars, extractVars>>

notErrVars == <<lifeVars, streamVars, respVars, statVars, rateVars, authVars, composeVars, extractVars>>

notStatVars == <<lifeVars, streamVars, respVars, errVars, rateVars, authVars, composeVars, extractVars>>

notRateVars == <<lifeVars, streamVars, respVars, errVars, statVars, authVars, composeVars, extractVars>>

notAuthVars == <<lifeVars, streamVars, respVars, errVars, statVars, rateVars, composeVars, extractVars>>

notComposeVars == <<lifeVars, streamVars, respVars, errVars, statVars, rateVars, authVars, extractVars>>

notExtractVars == <<lifeVars, streamVars, respVars, errVars, statVars, rateVars, authVars, composeVars>>

vars == <<lifeVars, streamVars, respVars, auxVars>>

globals == <<model, tokenizer, _initializing, _initialized>>

\* ------------------------------------------------------------ engine state
Ready == _initialized /\ ~_initializing /\ model # None /\ tokenizer # None

Uninitialized == loads = 0

Failed == model = None /\ tokenizer = None /\ ~_initialized /\ ~_initializing

\* a double-check that is never satisfied
AlreadyLoadedNever(force) == FALSE

\* line 67: not force_reload and _initialized and model is not None
AlreadyLoaded(force) == ~force /\ _initialized /\ model # None

\* lines 73-82: the polling loop, run while the caller holds _init_lock.
\* Every write of the globals happens under the lock, so the globals do not
\* change while the loop sleeps: either its first iteration returns (line
\* 78), or it runs until wait_count reaches the timeout, or it does not run.
WaitLoop(wait_count) ==
    LET runs == _initializing /\ wait_count < MODEL_INIT_TIMEOUT_SECONDS
        last == IF runs THEN MODEL_INIT_TIMEOUT_SECONDS ELSE wait_count
    IN IF runs /\ _initialized /\ model # None
       THEN "ok"
       ELSE IF last >= MODEL_INIT_TIMEOUT_SECONDS THEN "timeout" ELSE "ok"

\* a reload that keeps the handles it replaces
NeedsClearNever(force) == FALSE

\* line 85: if force_reload and model is not None
NeedsClear(force) == force /\ model # None

\* line 684
IsModelReady == _initialized /\ model # None /\ tokenizer # None

\* a load section that does not exclude other threads
CanAcquireUnlocked(t) == TRUE

\* line 65: `with _init_lock:` of initialize_model can be entered
CanAcquire(t) == _init_lock = NoThread

\* a readiness probe that reads the globals without the lock
ProbeNoLock(t) == TRUE

\* line 683: `with _init_lock:` of is_model_ready can be entered
ProbeCanAcquire(t) == _init_lock = NoThread

\* where a thread goes when its initialize_model call returns or raises:
\* chat() continues to prompt composition on return and re-raises on error
AfterInit(t, outcome) ==
    IF op[t] = "chat" /\ outcome = "ok" THEN "chat_compose" ELSE "idle"

ResultAfterInit(t, outcome) ==
    IF op[t] = "chat" /\ outcome = "ok" THEN result[t] ELSE outcome

InitStream ==
    /\ stream_pc = "created"
    /\ worker_pc = "not_started"
    /\ text_queue = <<>>
    /\ produced = 0
    /\ generated_text = <<>>
    /\ emitted = <<>>
    /\ exc_pending = FALSE
    /\ stats = 0
    /\ gen_eos = FALSE
    /\ completion_tokens = 0
    /\ finish_reason = "none"
    /\ handles_used = {}
    /\ started_ready = FALSE

\* no _generate_response call is going on
NoResponse ==
    [finish_reason |-> "none", content |-> <<>>, tool_calls |-> <<>>,
     prompt_tokens |-> 0, completion_tokens |-> 0, total_tokens |-> 0]

NoStats ==
    [finish_reason |-> "none", prompt_tokens |-> 0, completion_tokens |-> 0,
     total_tokens |-> 0]

InitResp ==
    /\ engine_caller = "none"
    /\ resp_pc = "created"
    /\ raw_text = <<>>
    /\ outputs = <<>>
    /\ tools = {}
    /\ json_output_required = FALSE
    /\ prompt_tokens = 0
    /\ generated_ids = <<>>
    /\ response = NoResponse
    /\ resp_stats = NoStats
    /\ resp_error = "none"

\* no endpoint has caught an exception
NoException == [type |-> "none", msg |-> <<>>]

InitErr ==
    /\ err_pc = "idle"
    /\ exception = NoException
    /\ client_status = 0
    /\ client_message = <<>>

\* --------------------------------------------------------- StatsTracker
\* stats.py line 31: deque(maxlen=100)
RECENT_MAXLEN == 100

StatModels == {"qwen-open-finance", "other-model"}
FinishReasons == {"stop", "length", "tool_calls"}

\* the RequestStats a caller passes (the timestamp left out); total_tokens
\* is prompt_tokens + completion_tokens at both call sites
RequestKinds ==
    {[model |-> "qwen-open-finance", finish_reason |-> "stop",
      prompt_tokens |-> 1, completion_tokens |-> 1, total_tokens |-> 2],
     [model |-> "other-model", finish_reason |-> "length",
      prompt_tokens |-> 2, completion_tokens |-> 3, total_tokens |-> 5]}

FirstKind == CHOOSE k \in RequestKinds : k.finish_reason = "stop"

NoRequest == [model |-> "none", finish_reason |-> "none", prompt_tokens |-> 0,
              completion_tokens |-> 0, total_tokens |-> 0]

NoSnapshot == [taken |-> FALSE]

\* stats.py lines 21-31: a fresh AggregateStats
EmptyStats ==
    [total_requests |-> 0, total_prompt_tokens |-> 0,
     total_completion_tokens |-> 0, total_tokens |-> 0,
     requests_by_model |-> [m \in StatModels |-> 0],
     tokens_by_model |-> [m \in StatModels |-> 0],
     finish_reasons |-> [r \in FinishReasons |-> 0],
     recent_requests |-> <<>>]

Smaller(a, b) == IF a < b THEN a ELSE b

\* the AggregateStats after n record_request calls with the same RequestStats
StatsAfter(n, k) ==
    [total_requests |-> n, total_prompt_tokens |-> n * k.prompt_tokens,
     total_completion_tokens |-> n * k.completion_tokens,
     total_tokens |-> n * k.total_tokens,
     requests_by_model |-> [m \in StatModels |-> IF m = k.model THEN n ELSE 0],
     tokens_by_model |->
         [m \in StatModels |-> IF m = k.model THEN n * k.total_tokens ELSE 0],
     finish_reasons |->
         [r \in FinishReasons |-> IF r = k.finish_reason THEN n ELSE 0],
     recent_requests |-> [i \in 1..Smaller(n, RECENT_MAXLEN) |-> k]]

InitStat ==
    /\ st_lock = NoThread
    /\ st_pc = [t \in Threads |-> "idle"]
    /\ st_arg = [t \in Threads |-> NoRequest]
    /\ st_stats = EmptyStats
    /\ st_result = [t \in Threads |-> NoSnapshot]
    /\ st_completed = [k \in RequestKinds |-> 0]
    /\ st_calls = 0

\* ---------------------------------------------------- SimpleRateLimiter
ClientIps == {"10.0.0.1", "10.0.0.2"}

NoDecision == [ip |-> "none", path |-> "none", time |-> 0, status |-> 0,
               called_next |-> FALSE]

\* rate_limit.py lines 18-22: a limiter constructed at time 0
InitRate ==
    /\ rl_requests = <<>>
    /\ rl_last_cleanup = 0
    /\ rl_now = 0
    /\ rl_allowed = [ip \in ClientIps |-> <<>>]
    /\ rl_last = NoDecision
    /\ rl_steps = 0

\* ---------------------------------------------------------- api_key_guard
\* a header that the request does not carry
Absent == [present |-> FALSE, value |-> <<>>]

NoAuthRequest == [path |-> "none", x_api_key |-> Absent, authorization |-> Absent]

\* config.py lines 19-22: no key configured, no request in progress
InitAuth ==
    /\ auth_key = <<>>
    /\ auth_request = NoAuthRequest
    /\ auth_pc = "idle"
    /\ auth_status = 0
    /\ auth_next_calls = 0

\* ------------------------------------------------------ prompt composition
\* no payload has been handed to chat()
InitCompose ==
    /\ cm_payload = [messages |-> <<>>, tools |-> FALSE, json_object |-> FALSE]
    /\ cm_before = <<>>
    /\ cm_prompts = <<>>
    /\ loc_history = <<>>

\* no text has been handed to _extract_json_from_text
InitExtract ==
    /\ ex_text = <<>>
    /\ ex_pc = "idle"
    /\ ex_result = <<>>

InitAux ==
    /\ InitErr
    /\ InitStat
    /\ InitRate
    /\ InitAuth
    /\ InitCompose
    /\ InitExtract

Init ==
    /\ InitStream
    /\ InitResp
    /\ InitAux
    /\ max_tokens = MaxTokens
    /\ model = None
    /\ tokenizer = None
    /\ _init_lock = NoThread
    /\ _initializing = FALSE
    /\ _initialized = FALSE
    /\ pc = [t \in Threads |-> "idle"]
    /\ op = [t \in Threads |-> "none"]
    /\ force_reload = [t \in Threads |-> FALSE]
    /\ result = [t \in Threads |-> "none"]
    /\ loads = 0
    /\ loaded = [t \in Threads |-> FALSE]
    /\ cohort = {}
    /\ startedReady = [t \in Threads |-> FALSE]
    /\ waited = [t \in Threads |-> 0]

\* ------------------------------------------------------- initialize_model
\* a thread calls initialize_model(force): startup thread, reload endpoint
CallInitialize(t, force) ==
    /\ pc[t] = "idle"
    /\ loads < MaxLoads
    /\ op' = [op EXCEPT ![t] = "init"]
    /\ force_reload' = [force_reload EXCEPT ![t] = force]
    /\ result' = [result EXCEPT ![t] = "none"]
    /\ loaded' = [loaded EXCEPT ![t] = FALSE]
    /\ cohort' = IF Uninitialized /\ ~force THEN cohort \cup {t} ELSE cohort \ {t}
    /\ startedReady' = [startedReady EXCEPT ![t] = Ready]
    /\ pc' = [pc EXCEPT ![t] = IF force THEN "acquire" ELSE "fast_initialized"]
    /\ UNCHANGED <<model, tokenizer, _init_lock, _initializing, _initialized,
                   loads, waited>>
    /\ UNCHANGED <<streamVars, respVars, auxVars>>

\* line 62, first operand: read of _initialized without the lock
FastCheckInitialized(t) ==
    /\ pc[t] = "fast_initialized"
    /\ pc' = [pc EXCEPT ![t] = IF _initialized THEN "fast_model" ELSE "acquire"]
    /\ UNCHANGED <<model, tokenizer, _init_lock, _initializing, _initialized, op,
                   force_reload, result, loads, loaded, cohort, startedReady, waited>>
    /\ UNCHANGED <<streamVars, respVars, auxVars>>

\* line 62, second operand: read of model without the lock; return at line 63
FastCheckModel(t) ==
    /\ pc[t] = "fast_model"
    /\ IF model # None
       THEN /\ pc' = [pc EXCEPT ![t] = AfterInit(t, "ok")]
            /\ result' = [result EXCEPT ![t] = ResultAfterInit(t, "ok")]
       ELSE /\ pc' = [pc EXCEPT ![t] = "acquire"]
            /\ UNCHANGED result
    /\ UNCHANGED <<model, tokenizer, _init_lock, _initializing, _initialized, op,
                   force_reload, loads, loaded, cohort, startedReady, waited>>
    /\ UNCHANGED <<streamVars, respVars, auxVars>>

\* lines 65-94: take the lock, double-check, wait branch, choice of the path
Acquire(t) ==
    /\ pc[t] = "acquire"
    /\ CanAcquire(t)
    /\ waited' = [waited EXCEPT ![t] = 0]
    /\ IF AlreadyLoaded(force_reload[t])
       THEN /\ pc' = [pc EXCEPT ![t] = AfterInit(t, "ok")]
            /\ result' = [result EXCEPT ![t] = ResultAfterInit(t, "ok")]
            /\ UNCHANGED _init_lock
       ELSE IF _initializing
       THEN /\ pc' = [pc EXCEPT ![t] = AfterInit(t, WaitLoop(0))]
            /\ result' = [result EXCEPT ![t] = ResultAfterInit(t, WaitLoop(0))]
            /\ UNCHANGED _init_lock
       ELSE /\ pc' = [pc EXCEPT ![t] =
                        IF NeedsClear(force_reload[t])
                        THEN "clear_model" ELSE "set_initializing"]
            /\ _init_lock' = t
            /\ UNCHANGED result
    /\ UNCHANGED <<model, tokenizer, _initializing, _initialized, op,
                   force_reload, loads, loaded, cohort, startedReady>>
    /\ UNCHANGED <<streamVars, respVars, auxVars>>

\* lines 87-88: clear_gpu_memory(model, tokenizer); model = None
ClearModel(t) ==
    /\ pc[t] = "clear_model"
    /\ model' = None
    /\ pc' = [pc EXCEPT ![t] = "clear_tokenizer"]
    /\ UNCHANGED <<tokenizer, _init_lock, _initializing, _initialized, op,
                   force_reload, result, loads, loaded, cohort, startedReady, waited>>
    /\ UNCHANGED <<streamVars, respVars, auxVars>>

\* line 89: tokenizer = None
ClearTokenizer(t) ==
    /\ pc[t] = "clear_tokenizer"
    /\ tokenizer' = None
    /\ pc' = [pc EXCEPT ![t] = "clear_initialized"]
    /\ UNCHANGED <<model, _init_lock, _initializing, _initialized, op,
                   force_reload, result, loads, loaded, cohort, startedReady, waited>>
    /\ UNCHANGED <<streamVars, respVars, auxVars>>

\* line 90: _initialized = False
ClearInitialized(t) ==
    /\ pc[t] = "clear_initialized"
    /\ _initialized' = FALSE
    /\ pc' = [pc EXCEPT ![t] = "set_initializing"]
    /\ UNCHANGED <<model, tokenizer, _init_lock, _initializing, op,
                   force_reload, result, loads, loaded, cohort, startedReady, waited>>
    /\ UNCHANGED <<streamVars, respVars, auxVars>>

\* line 96: _initializing = True; the load attempt begins
SetInitializing(t) ==
    /\ pc[t] = "set_initializing"
    /\ _initializing' = TRUE
    /\ loads' = loads + 1
    /\ loaded' = [loaded EXCEPT ![t] = TRUE]
    /\ pc' = [pc EXCEPT ![t] = "load_tokenizer"]
    /\ UNCHANGED <<model, tokenizer, _init_lock, _initialized, op,
                   force_reload, result, cohort, startedReady, waited>>
    /\ UNCHANGED <<streamVars, respVars, auxVars>>

\* lines 99-151: token lookup, login, AutoTokenizer.from_pretrained
LoadTokenizer(t) ==
    /\ pc[t] = "load_tokenizer"
    /\ \E ok \in BOOLEAN :
         IF ok
         THEN /\ tokenizer' = loads
              /\ pc' = [pc EXCEPT ![t] = "load_model"]
         ELSE /\ pc' = [pc EXCEPT ![t] = "except_model"]
              /\ UNCHANGED tokenizer
    /\ UNCHANGED <<model, _init_lock, _initializing, _initialized, op,
                   force_reload, result, loads, loaded, cohort, startedReady, waited>>
    /\ UNCHANGED <<streamVars, respVars, auxVars>>

\* lines 153-170: AutoModelForCausalLM.from_pretrained
LoadModel(t) ==
    /\ pc[t] = "load_model"
    /\ \E ok \in BOOLEAN :
         IF ok
         THEN /\ model' = loads
              /\ pc' = [pc EXCEPT ![t] = "mark_initialized"]
         ELSE /\ pc' = [pc EXCEPT ![t] = "except_model"]
              /\ UNCHANGED model
    /\ UNCHANGED <<tokenizer, _init_lock, _initializing, _initialized, op,
                   force_reload, result, loads, loaded, cohort, startedReady, waited>>
    /\ UNCHANGED <<streamVars, respVars, auxVars>>

\* lines 172-173: model.eval(); _initialized = True
MarkInitialized(t) ==
    /\ pc[t] = "mark_initialized"
    /\ \E ok \in BOOLEAN :
         IF ok
         THEN /\ _initialized' = TRUE
              /\ pc' = [pc EXCEPT ![t] = "finally_ok"]
         ELSE /\ pc' = [pc EXCEPT ![t] = "except_model"]
              /\ UNCHANGED _initialized
    /\ UNCHANGED <<model, tokenizer, _init_lock, _initializing, op,
                   force_reload, result, loads, loaded, cohort, startedReady, waited>>
    /\ UNCHANGED <<streamVars, respVars, auxVars>>

\* lines 177-182: except: clear_gpu_memory(model, tokenizer); model = None
ExceptClearModel(t) ==
    /\ pc[t] = "except_model"
    /\ model' = None
    /\ pc' = [pc EXCEPT ![t] = "except_tokenizer"]
    /\ UNCHANGED <<tokenizer, _init_lock, _initializing, _initialized, op,
                   force_reload, result, loads, loaded, cohort, startedReady, waited>>
    /\ UNCHANGED <<streamVars, respVars, auxVars>>

\* an except block that forgets the tokenizer
ExceptKeepTokenizer(t) ==
    /\ pc[t] = "except_tokenizer"
    /\ pc' = [pc EXCEPT ![t] = "finally_raise"]
    /\ UNCHANGED <<model, tokenizer, _init_lock, _initializing, _initialized, op,
                   force_reload, result, loads, loaded, cohort, startedReady, waited>>
    /\ UNCHANGED <<streamVars, respVars, auxVars>>

\* line 183: tokenizer = None, then raise at line 192
ExceptClearTokenizer(t) ==
    /\ pc[t] = "except_tokenizer"
    /\ tokenizer' = None
    /\ pc' = [pc EXCEPT ![t] = "finally_raise"]
    /\ UNCHANGED <<model, _init_lock, _initializing, _initialized, op,
                   force_reload, result, loads, loaded, cohort, startedReady, waited>>
    /\ UNCHANGED <<streamVars, respVars, auxVars>>

\* lines 193-194: finally: _initializing = False; the with block releases the lock
Finally(t) ==
    /\ pc[t] \in {"finally_ok", "finally_raise"}
    /\ _initializing' = FALSE
    /\ _init_lock' = NoThread
    /\ LET outcome == IF pc[t] = "finally_ok" THEN "ok" ELSE "raised"
       IN /\ pc' = [pc EXCEPT ![t] = AfterInit(t, outcome)]
          /\ result' = [result EXCEPT ![t] = ResultAfterInit(t, outcome)]
    /\ UNCHANGED <<model, tokenizer, _initialized, op, force_reload, loads,
                   loaded, cohort, startedReady, waited>>
    /\ UNCHANGED <<streamVars, respVars, auxVars>>

\* ------------------------------------------------------------------- chat
CallChat(t) ==
    /\ pc[t] = "idle"
    /\ loads < MaxLoads
    /\ op' = [op EXCEPT ![t] = "chat"]
    /\ force_reload' = [force_reload EXCEPT ![t] = FALSE]
    /\ result' = [result EXCEPT ![t] = "none"]
    /\ loaded' = [loaded EXCEPT ![t] = FALSE]
    /\ cohort' = cohort \ {t}
    /\ startedReady' = [startedReady EXCEPT ![t] = FALSE]
    /\ pc' = [pc EXCEPT ![t] = "chat_check"]
    /\ UNCHANGED <<model, tokenizer, _init_lock, _initializing, _initialized,
                   loads, waited>>
    /\ UNCHANGED <<streamVars, respVars, auxVars>>

\* lines 226-228: if model is None: initialize_model()
ChatCheck(t) ==
    /\ pc[t] = "chat_check"
    /\ IF model = None
       THEN /\ pc' = [pc EXCEPT ![t] = "fast_initialized"]
            /\ cohort' = IF Uninitialized THEN cohort \cup {t} ELSE cohort
       ELSE /\ pc' = [pc EXCEPT ![t] = "chat_compose"]
            /\ UNCHANGED cohort
    /\ UNCHANGED <<model, tokenizer, _init_lock, _initializing, _initialized, op,
                   force_reload, result, loads, loaded, startedReady, waited>>
    /\ UNCHANGED <<streamVars, respVars, auxVars>>

\* lines 287-309: chat template, tokenizer(prompt), generation; a None
\* tokenizer is not callable (line 303) and a None model has no generate
ChatCompose(t) ==
    /\ pc[t] = "chat_compose"
    /\ result' = [result EXCEPT ![t] =
                    IF tokenizer = None \/ model = None THEN "raised" ELSE "ok"]
    /\ pc' = [pc EXCEPT ![t] = "idle"]
    /\ UNCHANGED <<model, tokenizer, _init_lock, _initializing, _initialized, op,
                   force_reload, loads, loaded, cohort, startedReady, waited>>
    /\ UNCHANGED <<streamVars, respVars, auxVars>>

\* --------------------------------------------------------- is_model_ready
CallReady(t) ==
    /\ pc[t] = "idle"
    /\ op' = [op EXCEPT ![t] = "ready"]
    /\ result' = [result EXCEPT ![t] = "none"]
    /\ pc' = [pc EXCEPT ![t] = "ready_acquire"]
    /\ UNCHANGED <<model, tokenizer, _init_lock, _initializing, _initialized,
                   force_reload, loads, loaded, cohort, startedReady, waited>>
    /\ UNCHANGED <<streamVars, respVars, auxVars>>

\* lines 683-684: with _init_lock: return _initialized and model is not None
\* and tokenizer is not None
ReadyProbe(t) ==
    /\ pc[t] = "ready_acquire"
    /\ ProbeCanAcquire(t)
    /\ result' = [result EXCEPT ![t] = IF IsModelReady THEN "true" ELSE "false"]
    /\ pc' = [pc EXCEPT ![t] = "idle"]
    /\ UNCHANGED <<model, tokenizer, _init_lock, _initializing, _initialized, op,
                   force_reload, loads, loaded, cohort, startedReady, waited>>
    /\ UNCHANGED <<streamVars, respVars, auxVars>>

\* ------------------------------------------------------------------- time
\* one polling interval passes while an initialization is in flight; every
\* caller of initialize_model blocked on the lock has waited one interval more
Blocked(t) == pc[t] = "acquire" /\ _init_lock # NoThread

Tick ==
    /\ _initializing
    /\ \E t \in Threads : Blocked(t)
    /\ \A t \in Threads : Blocked(t) => waited[t] <= MODEL_INIT_TIMEOUT_SECONDS
    /\ waited' = [t \in Threads |->
                    IF Blocked(t)
                    THEN waited[t] + MODEL_INIT_WAIT_INTERVAL_SECONDS
                    ELSE waited[t]]
    /\ UNCHANGED <<model, tokenizer, _init_lock, _initializing, _initialized, pc,
                   op, force_reload, result, loads, loaded, cohort, startedReady>>
    /\ UNCHANGED <<streamVars, respVars, auxVars>>

LifecycleStep ==
    \/ \E t \in Threads, force \in BOOLEAN : CallInitialize(t, force)
    \/ \E t \in Threads : FastCheckInitialized(t)
    \/ \E t \in Threads : FastCheckModel(t)
    \/ \E t \in Threads : Acquire(t)
    \/ \E t \in Threads : ClearModel(t)
    \/ \E t \in Threads : ClearTokenizer(t)
    \/ \E t \in Threads : ClearInitialized(t)
    \/ \E t \in Threads : SetInitializing(t)
    \/ \E t \in Threads : LoadTokenizer(t)
    \/ \E t \in Threads : LoadModel(t)
    \/ \E t \in Threads : MarkInitialized(t)
    \/ \E t \in Threads : ExceptClearModel(t)
    \/ \E t \in Threads : ExceptClearTokenizer(t)
    \/ \E t \in Threads : Finally(t)
    \/ \E t \in Threads : CallChat(t)
    \/ \E t \in Threads : ChatCheck(t)
    \/ \E t \in Threads : ChatCompose(t)
    \/ \E t \in Threads : CallReady(t)
    \/ \E t \in Threads : ReadyProbe(t)

Next == LifecycleStep

Spec == Init /\ [][Next]_vars

NextTimed == LifecycleStep \/ Tick

SpecTimed == Init /\ [][NextTimed]_vars

\* ---------------------------------------------------------- _chat_stream
StopSignal == 0

\* line 452 yielding the text accumulated before the increment
ContentChunkStale(token) ==
    [kind |-> "chunk", delta |-> Len(generated_text), finish_reason |-> "null"]

ContentChunk(token) ==
    [kind |-> "chunk", delta |-> token, finish_reason |-> "null"]

\* lines 487-493: the final chunk, finish_reason "stop"
FinalChunk == [kind |-> "chunk", delta |-> 0, finish_reason |-> "stop"]

\* line 495
DoneFrame == [kind |-> "done", delta |-> 0, finish_reason |-> "null"]

\* ------------------------------------------------------- tokens and text
EosToken == 0

\* line 425: min_new_tokens = min(10, max_tokens // 10)
MinNewTokens(m) == IF m \div 10 < 10 THEN m \div 10 ELSE 10

\* the ids model.generate appends to the prompt: n ordinary tokens, then the
\* end-of-sequence token when the generation stopped by itself
GeneratedIds(n, eos) ==
    [i \in 1..n |-> i] \o (IF eos THEN <<EosToken>> ELSE <<>>)

\* tokenizer.decode(ids, skip_special_tokens=True), also used by the
\* streamer: the text pieces of the ids that are not special tokens
Decode(ids) == SelectSeq(ids, LAMBDA id : id # EosToken)

\* tokenizer.encode(text, add_special_tokens=False): the ids of the pieces of
\* the text, taken to be the pieces the text was decoded from
Encode(text) == [i \in 1..Len(text) |-> text[i]]

\* line 471: "length" if completion_tokens >= max_tokens else "stop"
StreamFinishReason(tokens, max) == IF tokens >= max THEN "length" ELSE "stop"

\* line 355
FinishReasonLengthFirst(tool_calls, tokens, max) ==
    IF tokens >= max THEN "length"
    ELSE IF tool_calls # <<>> THEN "tool_calls" ELSE "stop"

\* line 355: "tool_calls" if tool_calls else ("length" if completion_tokens
\* >= max_tokens else "stop"); the empty sequence stands for None
FinishReason(tool_calls, tokens, max) ==
    IF tool_calls # <<>> THEN "tool_calls"
    ELSE IF tokens >= max THEN "length" ELSE "stop"

\* lines 408-439: build the streamer around the global tokenizer (line 416),
\* read tokenizer.eos_token_id (line 423), start generation_thread; a None
\* tokenizer raises at line 423, before the thread exists
StreamStart ==
    /\ stream_pc = "created"
    /\ started_ready' = Ready
    /\ handles_used' = handles_used \cup {tokenizer}
    /\ IF tokenizer = None
       THEN /\ stream_pc' = "finished"
            /\ exc_pending' = TRUE
            /\ UNCHANGED worker_pc
       ELSE /\ worker_pc' = "started"
            /\ stream_pc' = "read"
            /\ UNCHANGED exc_pending
    /\ UNCHANGED <<text_queue, produced, generated_text, emitted, stats,
                   max_tokens, gen_eos, completion_tokens, finish_reason>>
    /\ UNCHANGED <<lifeVars, respVars, auxVars>>

\* lines 430-433: the thread evaluates the global model and calls its
\* generate; a None model raises and the thread ends
WorkerCall ==
    /\ worker_pc = "started"
    /\ handles_used' = handles_used \cup {model}
    /\ worker_pc' = IF model = None THEN "failed" ELSE "running"
    /\ engine_caller' = IF model = None THEN engine_caller ELSE "worker"
    /\ UNCHANGED <<stream_pc, text_queue, produced, generated_text, emitted,
                   exc_pending, stats, max_tokens, gen_eos, completion_tokens,
                   finish_reason>>
    /\ UNCHANGED <<resp_pc, respInputs, generated_ids, response, resp_stats,
                   resp_error, started_ready>>
    /\ UNCHANGED <<lifeVars, auxVars>>

\* line 433, model.generate -> streamer.put: one more token, whose text is
\* queued as the next increment
WorkerPut ==
    /\ worker_pc = "running"
    /\ produced < max_tokens
    /\ produced' = produced + 1
    /\ text_queue' = Append(text_queue, produced + 1)
    /\ UNCHANGED <<stream_pc, worker_pc, generated_text, emitted, exc_pending,
                   stats, max_tokens, gen_eos, completion_tokens, finish_reason,
                   handles_used, started_ready>>
    /\ UNCHANGED <<lifeVars, respVars, auxVars>>

\* line 433, model.generate returns, on an end-of-sequence token or because
\* max_new_tokens are generated: streamer.end() queues the stop signal
WorkerEnd ==
    /\ worker_pc = "running"
    /\ produced >= MinNewTokens(max_tokens) \/ produced = max_tokens
    /\ gen_eos' = (produced < max_tokens)
    /\ text_queue' = Append(text_queue, StopSignal)
    /\ worker_pc' = "done"
    /\ UNCHANGED <<stream_pc, produced, generated_text, emitted, exc_pending,
                   stats, max_tokens, completion_tokens, finish_reason,
                   handles_used, started_ready>>
    /\ UNCHANGED <<lifeVars, respVars, auxVars>>

\* lines 431-436: model.generate raises; the finally block empties the cache
\* and the thread ends without streamer.end()
WorkerRaise ==
    /\ worker_pc = "running"
    /\ worker_pc' = "failed"
    /\ UNCHANGED <<stream_pc, text_queue, produced, generated_text, emitted,
                   exc_pending, stats, max_tokens, gen_eos, completion_tokens,
                   finish_reason, handles_used, started_ready>>
    /\ UNCHANGED <<lifeVars, respVars, auxVars>>

\* lines 442-457: `for token in streamer` takes the next item (a blocking
\* get without timeout); an increment is accumulated and yielded as a chunk
ConsumerRead ==
    /\ stream_pc = "read"
    /\ text_queue # <<>>
    /\ text_queue' = Tail(text_queue)
    /\ IF Head(text_queue) = StopSignal
       THEN /\ stream_pc' = "finally_join"
            /\ UNCHANGED <<generated_text, emitted>>
       ELSE /\ generated_text' = Append(generated_text, Head(text_queue))
            /\ emitted' = Append(emitted, ContentChunk(Head(text_queue)))
            /\ stream_pc' = "yielded"
    /\ UNCHANGED <<worker_pc, produced, exc_pending, stats, max_tokens, gen_eos,
                   completion_tokens, finish_reason, handles_used, started_ready>>
    /\ UNCHANGED <<lifeVars, respVars, auxVars>>

\* lines 457-458: the client asks for the next frame; asyncio.sleep(0) returns
ConsumerResume ==
    /\ stream_pc = "yielded"
    /\ stream_pc' = "read"
    /\ UNCHANGED <<worker_pc, text_queue, produced, generated_text, emitted,
                   exc_pending, stats, max_tokens, gen_eos, completion_tokens,
                   finish_reason, handles_used, started_ready>>
    /\ UNCHANGED <<lifeVars, respVars, auxVars>>

\* lines 457-459: the client closes the generator at the yield (GeneratorExit)
\* or its task is cancelled at the await (CancelledError): the finally runs
ConsumerCancel ==
    /\ stream_pc = "yielded"
    /\ exc_pending' = TRUE
    /\ stream_pc' = "finally_join"
    /\ UNCHANGED <<worker_pc, text_queue, produced, generated_text, emitted,
                   stats, max_tokens, gen_eos, completion_tokens, finish_reason,
                   handles_used, started_ready>>
    /\ UNCHANGED <<lifeVars, respVars, auxVars>>

\* a finally block that does not wait for the worker
JoinReturnsAtOnce == TRUE

\* line 460: generation_thread.join() returns once the thread has ended
JoinReturns == worker_pc \in {"done", "failed"}

\* line 460: generation_thread.join()
FinallyJoin ==
    /\ stream_pc = "finally_join"
    /\ JoinReturns
    /\ stream_pc' = "finally_record"
    /\ UNCHANGED <<worker_pc, text_queue, produced, generated_text, emitted,
                   exc_pending, stats, max_tokens, gen_eos, completion_tokens,
                   finish_reason, handles_used, started_ready>>
    /\ UNCHANGED <<lifeVars, respVars, auxVars>>

\* lines 462-484: count the tokens of the accumulated text with the global
\* tokenizer (None raises at line 465, inside the finally block),
\* record_request, release the inputs; a pending exception then leaves the
\* generator, otherwise line 486 is reached
FinallyRecord ==
    /\ stream_pc = "finally_record"
    /\ IF generated_text # <<>> /\ tokenizer = None
       THEN /\ handles_used' = handles_used \cup {tokenizer}
            /\ exc_pending' = TRUE
            /\ stream_pc' = "finished"
            /\ UNCHANGED <<stats, completion_tokens, finish_reason>>
       ELSE /\ handles_used' = IF generated_text # <<>>
                               THEN handles_used \cup {tokenizer}
                               ELSE handles_used
            /\ completion_tokens' = IF generated_text # <<>>
                                    THEN Len(Encode(generated_text)) ELSE 0
            /\ finish_reason' = StreamFinishReason(completion_tokens', max_tokens)
            /\ stats' = stats + 1
            /\ stream_pc' = IF exc_pending THEN "finished" ELSE "emit_final"
            /\ UNCHANGED exc_pending
    /\ UNCHANGED <<worker_pc, text_queue, produced, generated_text, emitted,
                   max_tokens, gen_eos, started_ready>>
    /\ UNCHANGED <<lifeVars, respVars, auxVars>>

\* lines 486-494: yield the final chunk
EmitFinal ==
    /\ stream_pc = "emit_final"
    /\ emitted' = Append(emitted, FinalChunk)
    /\ stream_pc' = "final_yielded"
    /\ UNCHANGED <<worker_pc, text_queue, produced, generated_text, exc_pending,
                   stats, max_tokens, gen_eos, completion_tokens, finish_reason,
                   handles_used, started_ready>>
    /\ UNCHANGED <<lifeVars, respVars, auxVars>>

\* line 495: yield "data: [DONE]"
EmitDone ==
    /\ stream_pc = "final_yielded"
    /\ emitted' = Append(emitted, DoneFrame)
    /\ stream_pc' = "done_yielded"
    /\ UNCHANGED <<worker_pc, text_queue, produced, generated_text, exc_pending,
                   stats, max_tokens, gen_eos, completion_tokens, finish_reason,
                   handles_used, started_ready>>
    /\ UNCHANGED <<lifeVars, respVars, auxVars>>

\* the generator returns after line 495, or the client closes it at one of
\* the last two yields, which are outside the try block
StreamFinish ==
    /\ stream_pc \in {"final_yielded", "done_yielded"}
    /\ stream_pc' = "finished"
    /\ UNCHANGED <<worker_pc, text_queue, produced, generated_text, emitted,
                   exc_pending, stats, max_tokens, gen_eos, completion_tokens,
                   finish_reason, handles_used, started_ready>>
    /\ UNCHANGED <<lifeVars, respVars, auxVars>>

NextStream ==
    \/ StreamStart
    \/ WorkerCall
    \/ WorkerPut
    \/ WorkerEnd
    \/ WorkerRaise
    \/ ConsumerRead
    \/ ConsumerResume
    \/ ConsumerCancel
    \/ FinallyJoin
    \/ FinallyRecord
    \/ EmitFinal
    \/ EmitDone
    \/ StreamFinish

\* a streaming job runs against an engine that a first load has made Ready
\* the engine after one successful load, nobody inside initialize_model
InitLoaded ==
    /\ model = 1
    /\ tokenizer = 1
    /\ _init_lock = NoThread
    /\ _initializing = FALSE
    /\ _initialized = TRUE
    /\ pc = [t \in Threads |-> "idle"]
    /\ op = [t \in Threads |-> "none"]
    /\ force_reload = [t \in Threads |-> FALSE]
    /\ result = [t \in Threads |-> "none"]
    /\ loads = 1
    /\ loaded = [t \in Threads |-> FALSE]
    /\ cohort = {}
    /\ startedReady = [t \in Threads |-> FALSE]
    /\ waited = [t \in Threads |-> 0]

InitReady ==
    /\ InitStream
    /\ InitResp
    /\ InitAux
    /\ max_tokens \in 1..MaxTokens
    /\ InitLoaded

SpecStream == InitReady /\ [][NextStream]_vars

\* the worker is an OS thread that is always scheduled; the consumer is a
\* coroutine of the running event loop, resumed whenever it can continue as
\* long as the client keeps reading; cancelling is the client's choice and is
\* under no fairness condition
WorkerStep == WorkerCall \/ WorkerPut \/ WorkerEnd \/ WorkerRaise

ConsumerStep ==
    \/ StreamStart
    \/ ConsumerRead
    \/ ConsumerResume
    \/ FinallyJoin
    \/ FinallyRecord
    \/ EmitFinal
    \/ EmitDone
    \/ StreamFinish

SpecStreamFair ==
    /\ InitReady
    /\ [][NextStream]_vars
    /\ WF_vars(WorkerStep)
    /\ WF_vars(ConsumerStep)

\* ---------------------------------------------- generated text as segments
\* A generated text is a sequence of segments. OpenTag and CloseTag are
\* "<tool_call>" and "</tool_call>", LBrace and RBrace the outer braces of a
\* JSON object. A tool name as a segment is the body
\* "name": "<tool>", "arguments": {"x": 1}; Junk is text without braces
\* that is no JSON; BigInt is a member whose value is an integer of more
\* digits than int() converts (json.loads raises ValueError, no
\* JSONDecodeError).
OpenTag == "<tool_call>"
CloseTag == "</tool_call>"
LBrace == "{"
RBrace == "}"
Junk == "junk"
BigInt == "bigint"
ToolNames == {"tool_a", "tool_b"}

Pieces ==
    {<<OpenTag, LBrace, n, RBrace, CloseTag>> : n \in ToolNames}
    \cup {<<LBrace, n, RBrace>> : n \in ToolNames}
    \cup {<<OpenTag, LBrace, Junk, RBrace, CloseTag>>,
          <<OpenTag, LBrace, Junk, CloseTag>>,
          <<OpenTag, Junk, CloseTag>>,
          <<OpenTag, LBrace, BigInt, RBrace, CloseTag>>,
          <<LBrace, BigInt, RBrace>>,
          <<Junk>>}

RECURSIVE Flatten(_)
Flatten(ps) == IF ps = <<>> THEN <<>> ELSE Head(ps) \o Flatten(Tail(ps))

Texts == {Flatten(ps) : ps \in UNION {[1..k -> Pieces] : k \in 0..MaxPieces}}

Least(S) == CHOOSE j \in S : \A k \in S : j <= k

\* json.loads of a captured string: the decoder reads from the left and
\* raises at the first thing it cannot read
JsonLoads(capture) ==
    IF Len(capture) < 2 \/ capture[1] # LBrace
    THEN [outcome |-> "JSONDecodeError", name |-> ""]
    ELSE IF capture[2] = BigInt
    THEN [outcome |-> "ValueError", name |-> ""]
    ELSE IF capture = <<LBrace, RBrace>>
    THEN [outcome |-> "ok", name |-> ""]
    ELSE IF Len(capture) = 3 /\ capture[2] \in ToolNames /\ capture[3] = RBrace
    THEN [outcome |-> "ok", name |-> capture[2]]
    ELSE [outcome |-> "JSONDecodeError", name |-> ""]

\* lines 540-541: re.findall of <tool_call>\s*({.*?})\s*</tool_call> from
\* position p on: the capture starts at a brace right after an opening tag and
\* ends at the first closing brace that a closing tag follows
RECURSIVE TaggedMatches(_, _)
TaggedMatches(text, p) ==
    IF p + 1 > Len(text) THEN <<>>
    ELSE IF text[p] = OpenTag /\ text[p + 1] = LBrace
    THEN LET ends == {j \in (p + 2)..(Len(text) - 1) :
                         text[j] = RBrace /\ text[j + 1] = CloseTag}
         IN  IF ends = {} THEN TaggedMatches(text, p + 1)
             ELSE <<SubSeq(text, p + 1, Least(ends))>>
                  \o TaggedMatches(text, Least(ends) + 2)
    ELSE TaggedMatches(text, p + 1)

\* lines 546-547: re.findall of the bare pattern {"name": "..",
\* "arguments": {..}} from position p on
RECURSIVE BareMatches(_, _)
BareMatches(text, p) ==
    IF p + 2 > Len(text) THEN <<>>
    ELSE IF text[p] = LBrace /\ text[p + 1] \in ToolNames /\ text[p + 2] = RBrace
    THEN <<SubSeq(text, p, p + 2)>> \o BareMatches(text, p + 3)
    ELSE BareMatches(text, p + 1)

\* lines 540-547
Matches(text) ==
    IF TaggedMatches(text, 1) # <<>> THEN TaggedMatches(text, 1)
    ELSE BareMatches(text, 1)

\* lines 549-580: a match is appended when json.loads returns and the name is
\* one of the declared names; both except clauses skip the match
Accepted(match, declared) ==
    /\ JsonLoads(match).outcome = "ok"
    /\ JsonLoads(match).name \in declared

\* lines 535-582, _parse_tool_calls; the empty sequence stands for None (an
\* empty list is never returned, line 582)
ParseToolCalls(text, declared) ==
    LET valid == SelectSeq(Matches(text), LAMBDA m : Accepted(m, declared))
    IN  [i \in 1..Len(valid) |->
            [type |-> "function", name |-> JsonLoads(valid[i]).name]]

\* lines 584-590, _clean_tool_calls_from_text: drop every stretch from an
\* opening tag to the next closing tag
RECURSIVE CleanToolCalls(_, _)
CleanToolCalls(text, p) ==
    IF p > Len(text) THEN <<>>
    ELSE LET closes == {j \in (p + 1)..Len(text) : text[j] = CloseTag}
         IN  IF text[p] = OpenTag /\ closes # {}
             THEN CleanToolCalls(text, Least(closes) + 1)
             ELSE <<text[p]>> \o CleanToolCalls(text, p + 1)

\* line 628: the objects the pattern of step 3 finds, a brace, a body and the
\* closing brace (an opening brace that is never closed matches nothing)
RECURSIVE JsonObjects(_, _)
JsonObjects(text, p) ==
    IF p + 2 > Len(text) THEN <<>>
    ELSE IF text[p] = LBrace /\ text[p + 2] = RBrace
    THEN <<SubSeq(text, p, p + 2)>> \o JsonObjects(text, p + 3)
    ELSE JsonObjects(text, p + 1)

\* lines 592-669, _extract_json_from_text on a text without think tags and
\* fenced blocks: step 3 tries json.loads on every object found and keeps
\* the first longest one that parses; only JSONDecodeError is caught (lines
\* 622, 639, 663), any other exception leaves the function; when nothing
\* parses step 4 fails on the same objects and the text is returned
ExtractJson(text) ==
    LET objs == JsonObjects(text, 1)
        good == SelectSeq(objs, LAMBDA o : JsonLoads(o).outcome = "ok")
    IN  IF \E i \in DOMAIN objs : JsonLoads(objs[i]).outcome = "ValueError"
        THEN [raised |-> "ValueError", text |-> text]
        ELSE IF good # <<>>
        THEN [raised |-> "none", text |-> good[1]]
        ELSE [raised |-> "none", text |-> text]

\* ------------------------------------------------- _generate_response
\* lines 305-309 and 319-321: chat, a coroutine run by the event loop, calls
\* _generate_response as a plain function, which calls model.generate
RespCall ==
    /\ resp_pc = "created"
    /\ resp_pc' = "generating"
    /\ engine_caller' = "event_loop"
    /\ UNCHANGED <<respInputs, generated_ids, response, resp_stats, resp_error>>
    /\ UNCHANGED <<lifeVars, streamVars, auxVars>>

\* lines 321-338: model.generate returns the prompt followed by the new ids
RespGenerate ==
    /\ resp_pc = "generating"
    /\ generated_ids' = outputs
    /\ resp_pc' = "generated"
    /\ UNCHANGED <<engine_caller, respInputs, response, resp_stats, resp_error>>
    /\ UNCHANGED <<lifeVars, streamVars, auxVars>>

\* lines 321-333 and 393-402: model.generate raises, the finally block
\* releases the inputs and the exception leaves _generate_response
RespGenerateRaise ==
    /\ resp_pc = "generating"
    /\ resp_error' = "generate"
    /\ resp_pc' = "failed"
    /\ UNCHANGED <<engine_caller, respInputs, generated_ids, response, resp_stats>>
    /\ UNCHANGED <<lifeVars, streamVars, auxVars>>

\* lines 339-392: decode, extract JSON when required, parse and clean tool
\* calls when tools are declared, decide the finish reason, record the
\* statistics and build the response
RespBuild ==
    /\ resp_pc = "generated"
    /\ LET completion == Len(generated_ids)
           extracted == IF json_output_required THEN ExtractJson(raw_text)
                        ELSE [raised |-> "none", text |-> raw_text]
           tool_calls == IF tools # {} THEN ParseToolCalls(extracted.text, tools)
                         ELSE <<>>
           content == IF tool_calls # <<>>
                      THEN CleanToolCalls(extracted.text, 1)
                      ELSE extracted.text
           reason == FinishReason(tool_calls, completion, max_tokens)
       IN  IF extracted.raised # "none"
           THEN /\ resp_error' = extracted.raised
                /\ resp_pc' = "failed"
                /\ UNCHANGED <<response, resp_stats>>
           ELSE /\ resp_stats' = [finish_reason |-> reason,
                                  prompt_tokens |-> prompt_tokens,
                                  completion_tokens |-> completion,
                                  total_tokens |-> prompt_tokens + completion]
                /\ response' = [finish_reason |-> reason,
                                content |-> content,
                                tool_calls |-> tool_calls,
                                prompt_tokens |-> prompt_tokens,
                                completion_tokens |-> completion,
                                total_tokens |-> prompt_tokens + completion]
                /\ resp_pc' = "finished"
                /\ UNCHANGED resp_error
    /\ UNCHANGED <<engine_caller, respInputs, generated_ids>>
    /\ UNCHANGED <<lifeVars, streamVars, auxVars>>

NextResponse ==
    \/ RespCall
    \/ RespGenerate
    \/ RespGenerateRaise
    \/ RespBuild

\* a non-streaming request on a loaded engine: the engine's generation (ids
\* and text) and the request's parameters are the inputs
InitResponse ==
    /\ InitStream
    /\ InitLoaded
    /\ max_tokens \in 1..MaxTokens
    /\ engine_caller = "none"
    /\ resp_pc = "created"
    /\ raw_text \in Texts
    /\ outputs \in {GeneratedIds(n, eos) : n \in 0..max_tokens, eos \in BOOLEAN}
    /\ Len(outputs) <= max_tokens
    /\ (raw_text # <<>>) => Len(Decode(outputs)) >= 1
    /\ tools \in SUBSET ToolNames
    /\ json_output_required \in BOOLEAN
    /\ prompt_tokens \in 1..MaxPrompt
    /\ generated_ids = <<>>
    /\ response = NoResponse
    /\ resp_stats = NoStats
    /\ resp_error = "none"
    /\ InitAux

SpecResponse == InitResponse /\ [][NextResponse]_vars

\* --------------------------------------- a stream during initialize_model
\* the thread startup_event starts to run initialize_model with
\* settings.force_model_reload; it can get the lock after a request's own
\* initialize_model has loaded the engine and its stream has begun
StartupThread == 1

ReloadStep ==
    \/ \E force \in BOOLEAN : CallInitialize(StartupThread, force)
    \/ FastCheckInitialized(StartupThread)
    \/ FastCheckModel(StartupThread)
    \/ Acquire(StartupThread)
    \/ ClearModel(StartupThread)
    \/ ClearTokenizer(StartupThread)
    \/ ClearInitialized(StartupThread)
    \/ SetInitializing(StartupThread)
    \/ LoadTokenizer(StartupThread)
    \/ LoadModel(StartupThread)
    \/ MarkInitialized(StartupThread)
    \/ ExceptClearModel(StartupThread)
    \/ ExceptClearTokenizer(StartupThread)
    \/ Finally(StartupThread)

NextReload == NextStream \/ ReloadStep

SpecReload == InitReady /\ [][NextReload]_vars

\* ------------------------------------------------------ _parse_tool_calls
\* _parse_tool_calls applied to a text and a declared tool set
ParseCall ==
    /\ resp_pc = "created"
    /\ response' = [response EXCEPT !.tool_calls = ParseToolCalls(raw_text, tools)]
    /\ resp_pc' = "finished"
    /\ UNCHANGED <<engine_caller, respInputs, generated_ids, resp_stats,
                   resp_error>>
    /\ UNCHANGED <<lifeVars, streamVars, auxVars>>

NextParse == ParseCall

\* the inputs: every text and every set of declared names
InitParse ==
    /\ InitStream
    /\ InitLoaded
    /\ max_tokens = MaxTokens
    /\ engine_caller = "none"
    /\ resp_pc = "created"
    /\ raw_text \in Texts
    /\ outputs = <<>>
    /\ tools \in SUBSET ToolNames
    /\ json_output_required = FALSE
    /\ prompt_tokens = 0
    /\ generated_ids = <<>>
    /\ response = NoResponse
    /\ resp_stats = NoStats
    /\ resp_error = "none"
    /\ InitAux

SpecParse == InitParse /\ [][NextParse]_vars

\* ------------------------------------------- error answers of the router
\* An exception is its type and its text, the text a sequence of words;
\* `x in str(e)` is true when the word x occurs in it. "timed" and "out" are
\* two words, neither of which holds "timeout".
ErrorWords == {"401", "Unauthorized", "timeout", "timed", "out", "detail"}
ErrorTypes == {"RuntimeError", "ValueError", "OSError"}

\* transformers_provider.py line 81
InitTimeoutError ==
    [type |-> "RuntimeError", msg |-> <<"Model", "initialization", "timed", "out">>]

Errors ==
    {InitTimeoutError}
    \cup {[type |-> t, msg |-> m] :
             t \in ErrorTypes,
             m \in UNION {[1..k -> ErrorWords] : k \in 1..MaxWords}}

Contains(msg, word) == \E i \in DOMAIN msg : msg[i] = word

\* str.lower() of a text, word by word
Lower(msg) == [i \in DOMAIN msg |-> IF msg[i] = "Unauthorized" THEN "unauthorized"
                                    ELSE IF msg[i] = "Model" THEN "model"
                                    ELSE msg[i]]

AuthFailedMessage == <<"Authentication failed. Check your Hugging Face token.">>
TimedOutMessage == <<"Model initialization timed out. Please try again.">>
ReloadFailedMessage == <<"Failed to reload model. Check logs for details.">>
InternalErrorMessage == <<"An internal error occurred. Please try again later.">>

\* openai_api.py lines 64-72
SanitizeReload(msg) ==
    IF Contains(msg, "401") \/ Contains(msg, "Unauthorized") THEN AuthFailedMessage
    ELSE IF Contains(Lower(msg), "timeout") THEN TimedOutMessage
    ELSE ReloadFailedMessage

\* openai_api.py lines 62-81: reload_model catches what initialize_model raised
ReloadFails ==
    /\ err_pc = "reload_raised"
    /\ client_status' = 500
    /\ client_message' = SanitizeReload(exception.msg)
    /\ err_pc' = "reload_answered"
    /\ UNCHANGED exception
    /\ UNCHANGED notErrVars

\* openai_api.py lines 216-230: chat_completions answers a ValueError with
\* its text and status 400, any other exception with the fixed message
ChatFails ==
    /\ err_pc = "chat_raised"
    /\ IF exception.type = "ValueError"
       THEN /\ client_status' = 400
            /\ client_message' = exception.msg
       ELSE /\ client_status' = 500
            /\ client_message' = InternalErrorMessage
    /\ err_pc' = "chat_answered"
    /\ UNCHANGED exception
    /\ UNCHANGED notErrVars

NextErrors == ReloadFails \/ ChatFails

InitCore ==
    /\ InitStream
    /\ InitResp
    /\ InitLoaded
    /\ max_tokens = MaxTokens

InitErrors ==
    /\ InitCore
    /\ InitCompose
    /\ InitExtract
    /\ InitStat
    /\ InitRate
    /\ InitAuth
    /\ err_pc \in {"reload_raised", "chat_raised"}
    /\ exception \in Errors
    /\ client_status = 0
    /\ client_message = <<>>

SpecErrors == InitErrors /\ [][NextErrors]_vars

\* -------------------------------------- StatsTracker under concurrent use
\* `with self._lock` proceeding without the lock
StatsLockIgnored == TRUE

\* stats.py lines 44, 56, 106: `with self._lock` proceeds when the lock is free
StatsLockFree == st_lock = NoThread

\* a thread calls record_request(stats)
CallRecord(t, k) ==
    /\ st_pc[t] = "idle"
    /\ st_calls < MaxCalls
    /\ st_calls' = st_calls + 1
    /\ st_arg' = [st_arg EXCEPT ![t] = k]
    /\ st_pc' = [st_pc EXCEPT ![t] = "record_lock"]
    /\ UNCHANGED <<st_lock, st_stats, st_result, st_completed>>
    /\ UNCHANGED notStatVars

\* a thread calls get_stats()
CallGetStats(t) ==
    /\ st_pc[t] = "idle"
    /\ st_calls < MaxCalls
    /\ st_calls' = st_calls + 1
    /\ st_pc' = [st_pc EXCEPT ![t] = "get_lock"]
    /\ UNCHANGED <<st_lock, st_arg, st_stats, st_result, st_completed>>
    /\ UNCHANGED notStatVars

\* a thread calls reset()
CallReset(t) ==
    /\ st_pc[t] = "idle"
    /\ st_calls < MaxCalls
    /\ st_calls' = st_calls + 1
    /\ st_pc' = [st_pc EXCEPT ![t] = "reset_lock"]
    /\ UNCHANGED <<st_lock, st_arg, st_stats, st_result, st_completed>>
    /\ UNCHANGED notStatVars

\* lines 44, 56, 106: enter the `with self._lock` block
StatsAcquire(t) ==
    /\ st_pc[t] \in {"record_lock", "get_lock", "reset_lock"}
    /\ StatsLockFree
    /\ st_lock' = t
    /\ st_pc' = [st_pc EXCEPT ![t] =
                    IF st_pc[t] = "record_lock" THEN "total_requests"
                    ELSE IF st_pc[t] = "get_lock" THEN "get_read"
                    ELSE "reset_assign"]
    /\ UNCHANGED <<st_arg, st_stats, st_result, st_completed, st_calls>>
    /\ UNCHANGED notStatVars

\* line 45
RecTotalRequests(t) ==
    /\ st_pc[t] = "total_requests"
    /\ st_stats' = [st_stats EXCEPT !.total_requests = @ + 1]
    /\ st_pc' = [st_pc EXCEPT ![t] = "total_prompt_tokens"]
    /\ UNCHANGED <<st_lock, st_arg, st_result, st_completed, st_calls>>
    /\ UNCHANGED notStatVars

\* line 46
RecPromptTokens(t) ==
    /\ st_pc[t] = "total_prompt_tokens"
    /\ st_stats' = [st_stats EXCEPT
                       !.total_prompt_tokens = @ + st_arg[t].prompt_tokens]
    /\ st_pc' = [st_pc EXCEPT ![t] = "total_completion_tokens"]
    /\ UNCHANGED <<st_lock, st_arg, st_result, st_completed, st_calls>>
    /\ UNCHANGED notStatVars

\* line 47
RecCompletionTokens(t) ==
    /\ st_pc[t] = "total_completion_tokens"
    /\ st_stats' = [st_stats EXCEPT
                       !.total_completion_tokens = @ + st_arg[t].completion_tokens]
    /\ st_pc' = [st_pc EXCEPT ![t] = "total_tokens"]
    /\ UNCHANGED <<st_lock, st_arg, st_result, st_completed, st_calls>>
    /\ UNCHANGED notStatVars

\* line 48
RecTotalTokens(t) ==
    /\ st_pc[t] = "total_tokens"
    /\ st_stats' = [st_stats EXCEPT !.total_tokens = @ + st_arg[t].total_tokens]
    /\ st_pc' = [st_pc EXCEPT ![t] = "requests_by_model"]
    /\ UNCHANGED <<st_lock, st_arg, st_result, st_completed, st_calls>>
    /\ UNCHANGED notStatVars

\* line 49
RecRequestsByModel(t) ==
    /\ st_pc[t] = "requests_by_model"
    /\ st_stats' = [st_stats EXCEPT !.requests_by_model[st_arg[t].model] = @ + 1]
    /\ st_pc' = [st_pc EXCEPT ![t] = "tokens_by_model"]
    /\ UNCHANGED <<st_lock, st_arg, st_result, st_completed, st_calls>>
    /\ UNCHANGED notStatVars

\* line 50
RecTokensByModel(t) ==
    /\ st_pc[t] = "tokens_by_model"
    /\ st_stats' = [st_stats EXCEPT
                       !.tokens_by_model[st_arg[t].model] = @ + st_arg[t].total_tokens]
    /\ st_pc' = [st_pc EXCEPT ![t] = "finish_reasons"]
    /\ UNCHANGED <<st_lock, st_arg, st_result, st_completed, st_calls>>
    /\ UNCHANGED notStatVars

\* line 51
RecFinishReasons(t) ==
    /\ st_pc[t] = "finish_reasons"
    /\ st_stats' = [st_stats EXCEPT
                       !.finish_reasons[st_arg[t].finish_reason] = @ + 1]
    /\ st_pc' = [st_pc EXCEPT ![t] = "recent_requests"]
    /\ UNCHANGED <<st_lock, st_arg, st_result, st_completed, st_calls>>
    /\ UNCHANGED notStatVars

\* deque.append on a deque with maxlen: a full deque drops its oldest entry
DequeAppend(d, x) ==
    IF Len(d) >= RECENT_MAXLEN THEN Append(Tail(d), x) ELSE Append(d, x)

\* line 52
RecRecent(t) ==
    /\ st_pc[t] = "recent_requests"
    /\ st_stats' = [st_stats EXCEPT
                       !.recent_requests = DequeAppend(@, st_arg[t])]
    /\ st_pc' = [st_pc EXCEPT ![t] = "record_unlock"]
    /\ UNCHANGED <<st_lock, st_arg, st_result, st_completed, st_calls>>
    /\ UNCHANGED notStatVars

\* lines 56-102: get_stats builds its dictionary from the fields
GetStatsRead(t) ==
    /\ st_pc[t] = "get_read"
    /\ st_result' = [st_result EXCEPT ![t] =
           [taken |-> TRUE,
            total_requests |-> st_stats.total_requests,
            total_prompt_tokens |-> st_stats.total_prompt_tokens,
            total_completion_tokens |-> st_stats.total_completion_tokens,
            total_tokens |-> st_stats.total_tokens,
            requests_by_model |-> st_stats.requests_by_model,
            tokens_by_model |-> st_stats.tokens_by_model,
            finish_reasons |-> st_stats.finish_reasons,
            recent_requests_count |-> Len(st_stats.recent_requests)]]
    /\ st_pc' = [st_pc EXCEPT ![t] = "get_unlock"]
    /\ UNCHANGED <<st_lock, st_arg, st_stats, st_completed, st_calls>>
    /\ UNCHANGED notStatVars

\* lines 106-108: reset installs a fresh AggregateStats
ResetAssign(t) ==
    /\ st_pc[t] = "reset_assign"
    /\ st_stats' = EmptyStats
    /\ st_completed' = [k \in RequestKinds |-> 0]
    /\ st_pc' = [st_pc EXCEPT ![t] = "reset_unlock"]
    /\ UNCHANGED <<st_lock, st_arg, st_result, st_calls>>
    /\ UNCHANGED notStatVars

\* leaving the `with` block releases the lock and the call returns
StatsRelease(t) ==
    /\ st_pc[t] \in {"record_unlock", "get_unlock", "reset_unlock"}
    /\ st_lock' = NoThread
    /\ st_completed' = IF st_pc[t] = "record_unlock"
                       THEN [st_completed EXCEPT ![st_arg[t]] = @ + 1]
                       ELSE st_completed
    /\ st_pc' = [st_pc EXCEPT ![t] = "idle"]
    /\ UNCHANGED <<st_arg, st_stats, st_result, st_calls>>
    /\ UNCHANGED notStatVars

NextStats ==
    \/ \E t \in Threads, k \in RequestKinds : CallRecord(t, k)
    \/ \E t \in Threads : CallGetStats(t)
    \/ \E t \in Threads : CallReset(t)
    \/ \E t \in Threads : StatsAcquire(t)
    \/ \E t \in Threads : RecTotalRequests(t)
    \/ \E t \in Threads : RecPromptTokens(t)
    \/ \E t \in Threads : RecCompletionTokens(t)
    \/ \E t \in Threads : RecTotalTokens(t)
    \/ \E t \in Threads : RecRequestsByModel(t)
    \/ \E t \in Threads : RecTokensByModel(t)
    \/ \E t \in Threads : RecFinishReasons(t)
    \/ \E t \in Threads : RecRecent(t)
    \/ \E t \in Threads : GetStatsRead(t)
    \/ \E t \in Threads : ResetAssign(t)
    \/ \E t \in Threads : StatsRelease(t)

\* the tracker is fresh or has recorded RECENT_MAXLEN - 1 equal requests
InitStats ==
    /\ InitCore
    /\ InitCompose
    /\ InitExtract
    /\ InitErr
    /\ InitRate
    /\ InitAuth
    /\ st_lock = NoThread
    /\ st_pc = [t \in Threads |-> "idle"]
    /\ st_arg = [t \in Threads |-> NoRequest]
    /\ \E n \in {0, RECENT_MAXLEN - 1} :
           /\ st_stats = StatsAfter(n, FirstKind)
           /\ st_completed = [k \in RequestKinds |-> IF k = FirstKind THEN n ELSE 0]
    /\ st_result = [t \in Threads |-> NoSnapshot]
    /\ st_calls = 0

SpecStats == InitStats /\ [][NextStats]_vars

\* ------------------------------------------ rate limiting middleware
RATE_LIMIT_REQUESTS_PER_MINUTE == 30
RATE_LIMIT_REQUESTS_PER_HOUR == 500
MinuteSeconds == 60
HourSeconds == 3600
CleanupInterval == 300

TimeSteps == {1, MinuteSeconds, HourSeconds}
RatePaths == {"/v1/chat/completions", "/health"}
PublicRatePaths == {"/", "/health", "/docs", "/redoc", "/openapi.json", "/v1/stats"}

\* lines 36-37 and 59-60: popleft while the oldest entry is older than cutoff
\* (the loop stops at the first entry that is not older)
DropOlder(requests, cutoff) ==
    LET stops == {i \in 1..Len(requests) : requests[i] >= cutoff}
        first == IF stops = {} THEN Len(requests) + 1
                 ELSE CHOOSE i \in stops : \A j \in stops : i <= j
    IN  SubSeq(requests, first, Len(requests))

\* line 55: defaultdict access, an absent key reads as an empty deque
RequestsOf(dict, ip) == IF ip \in DOMAIN dict THEN dict[ip] ELSE <<>>

\* lines 24-43, _cleanup_old_entries at time now: nothing before the
\* interval has passed; then every deque loses the entries older than an
\* hour and an IP whose deque is empty is deleted
CleanedUp(dict, last_cleanup, now) ==
    IF now - last_cleanup < CleanupInterval THEN dict
    ELSE LET kept == {ip \in DOMAIN dict :
                         DropOlder(dict[ip], now - HourSeconds) # <<>>}
         IN  [ip \in kept |-> DropOlder(dict[ip], now - HourSeconds)]

\* line 68 with a strict comparison
RecentRequestsStrict(requests, now) ==
    SelectSeq(requests, LAMBDA r : r > now - MinuteSeconds)

\* lines 67-68: the entries of the last 60 seconds
RecentRequests(requests, now) ==
    SelectSeq(requests, LAMBDA r : r >= now - MinuteSeconds)

\* lines 57-70: the decision on a deque already freed of entries older than
\* an hour
Allowed(requests, now) ==
    /\ Len(requests) < RATE_LIMIT_REQUESTS_PER_HOUR
    /\ Len(RecentRequests(requests, now)) < RATE_LIMIT_REQUESTS_PER_MINUTE

\* line 73 executed whatever the decision
RecordedAlways(allowed) == TRUE

\* lines 63-74: the time is appended only on the path that returns True
Recorded(allowed) == allowed

\* lines 45-74, check_rate_limit(ip) at time now: the dictionary afterwards
CheckedDict(ip, now) ==
    LET cleaned == CleanedUp(rl_requests, rl_last_cleanup, now)
        pruned == DropOlder(RequestsOf(cleaned, ip), now - HourSeconds)
        after == IF Recorded(Allowed(pruned, now)) THEN Append(pruned, now)
                 ELSE pruned
    IN  [k \in DOMAIN cleaned \cup {ip} |-> IF k = ip THEN after ELSE cleaned[k]]

\* lines 45-74: the value check_rate_limit(ip) returns at time now
CheckedAllowed(ip, now) ==
    Allowed(DropOlder(RequestsOf(CleanedUp(rl_requests, rl_last_cleanup, now), ip),
                      now - HourSeconds), now)

\* lines 81-123, rate_limit_middleware for one request: a public path goes
\* straight to the next handler; otherwise check_rate_limit decides between
\* the next handler and the 429 answer
RateLimitRequest(ip, path) ==
    /\ rl_steps < MaxSteps
    /\ rl_steps' = rl_steps + 1
    /\ IF path \in PublicRatePaths
       THEN /\ rl_last' = [ip |-> ip, path |-> path, time |-> rl_now,
                           status |-> 200, called_next |-> TRUE]
            /\ UNCHANGED <<rl_requests, rl_last_cleanup, rl_allowed>>
       ELSE /\ rl_requests' = CheckedDict(ip, rl_now)
            /\ rl_last_cleanup' =
                   IF rl_now - rl_last_cleanup < CleanupInterval
                   THEN rl_last_cleanup ELSE rl_now
            /\ rl_allowed' = IF CheckedAllowed(ip, rl_now)
                             THEN [rl_allowed EXCEPT ![ip] = Append(@, rl_now)]
                             ELSE rl_allowed
            /\ rl_last' = [ip |-> ip, path |-> path, time |-> rl_now,
                           status |-> IF CheckedAllowed(ip, rl_now) THEN 200 ELSE 429,
                           called_next |-> CheckedAllowed(ip, rl_now)]
    /\ UNCHANGED rl_now
    /\ UNCHANGED notRateVars

\* time passes between two requests
ClockAdvance(d) ==
    /\ rl_steps < MaxSteps
    /\ rl_steps' = rl_steps + 1
    /\ rl_now' = rl_now + d
    /\ UNCHANGED <<rl_requests, rl_last_cleanup, rl_allowed, rl_last>>
    /\ UNCHANGED notRateVars

NextRate ==
    \/ \E ip \in ClientIps, path \in RatePaths : RateLimitRequest(ip, path)
    \/ \E d \in TimeSteps : ClockAdvance(d)

\* n requests of one IP at time t, all of them allowed
Burst(n, t) == [i \in 1..n |-> t]

\* the deque of an IP after 16 minutes of 30 requests each, the bursts 61
\* seconds apart, and 19 requests in the next burst: 499 allowed requests
RECURSIVE Bursts(_)
Bursts(j) ==
    IF j = 0 THEN <<>>
    ELSE Bursts(j - 1) \o Burst(RATE_LIMIT_REQUESTS_PER_MINUTE,
                                (j - 1) * (MinuteSeconds + 1))

BusyHour == Bursts(16) \o Burst(19, 16 * (MinuteSeconds + 1))

\* the limiter right after construction, or after one IP has made 29
\* requests at time 0, or after that IP's busy hour
InitRateLimiter ==
    /\ InitCore
    /\ InitCompose
    /\ InitExtract
    /\ InitErr
    /\ InitStat
    /\ InitAuth
    /\ rl_last_cleanup = 0
    /\ rl_last = NoDecision
    /\ rl_steps = 0
    /\ \E ip \in ClientIps :
           \E start \in {<<>>, Burst(RATE_LIMIT_REQUESTS_PER_MINUTE - 1, 0), BusyHour} :
               /\ rl_requests = IF start = <<>> THEN <<>> ELSE [k \in {ip} |-> start]
               /\ rl_allowed = [k \in ClientIps |-> IF k = ip THEN start ELSE <<>>]
               /\ rl_now = IF start = <<>> THEN 0 ELSE start[Len(start)]

SpecRate == InitRateLimiter /\ [][NextRate]_vars

\* ------------------------------------------------ API key middleware
\* Header values and keys are sequences of pieces: an ASCII letter, a
\* non-ASCII letter, a blank, and the seven characters "Bearer ".
Letter == "a"
NonAscii == "e-acute"
Blank == " "
BearerPrefix == "Bearer "
HeaderPieces == {Letter, NonAscii, Blank, BearerPrefix}

RECURSIVE StringsUpTo(_)
StringsUpTo(n) ==
    IF n = 0 THEN {<<>>}
    ELSE StringsUpTo(n - 1)
             \cup {Append(w, c) : w \in {v \in StringsUpTo(n - 1) : Len(v) = n - 1},
                                  c \in HeaderPieces}

HeaderOf(strings) == {Absent} \cup {[present |-> TRUE, value |-> v] : v \in strings}

\* middleware.py line 9, and one protected path
PUBLIC_PATHS == {"/", "/health", "/docs", "/redoc", "/openapi.json"}
AuthPaths == {"/health", "/v1/chat/completions"}

ServiceKeys == {<<>>, <<Letter>>, <<Letter, Letter>>}

\* request.headers.get(name, ""), and the truth value of headers.get(name)
HeaderText(header) == IF header.present THEN header.value ELSE <<>>

\* str.startswith("Bearer ")
StartsWithBearer(text) == text # <<>> /\ Head(text) = BearerPrefix

\* str.replace("Bearer ", ""): every occurrence is removed
RemoveBearer(text) == SelectSeq(text, LAMBDA c : c # BearerPrefix)

\* str.strip()
RECURSIVE Strip(_)
Strip(text) ==
    IF text = <<>> THEN text
    ELSE IF Head(text) = Blank THEN Strip(Tail(text))
    ELSE IF text[Len(text)] = Blank THEN Strip(SubSeq(text, 1, Len(text) - 1))
    ELSE text

\* lines 32-37: the key taken from the headers, empty when there is none
ApiKeyOf(request) ==
    IF HeaderText(request.x_api_key) # <<>> THEN HeaderText(request.x_api_key)
    ELSE IF StartsWithBearer(HeaderText(request.authorization))
         THEN Strip(RemoveBearer(HeaderText(request.authorization)))
         ELSE <<>>

IsAscii(text) == \A i \in 1..Len(text) : text[i] # NonAscii

\* line 42: hmac.compare_digest on two str raises TypeError when either holds
\* a non-ASCII character
CompareDigest(a, b) ==
    IF IsAscii(a) /\ IsAscii(b) THEN (IF a = b THEN "equal" ELSE "different")
    ELSE "TypeError"

\* lines 24-48 up to the call of the next handler, the 401 answer, or the
\* exception that leaves the middleware (the server answers 500)
GuardOutcome(request, key) ==
    IF request.path \in PUBLIC_PATHS THEN "call_next"
    ELSE IF key = <<>> THEN "call_next"
    ELSE IF ApiKeyOf(request) = <<>> THEN "unauthorized"
    ELSE IF CompareDigest(ApiKeyOf(request), key) = "TypeError" THEN "raised"
    ELSE IF CompareDigest(ApiKeyOf(request), key) = "equal" THEN "call_next"
    ELSE "unauthorized"

\* api_key_guard(request, call_next) up to its first await or its return
ApiKeyGuard(request) ==
    /\ auth_pc = "idle"
    /\ auth_request' = request
    /\ auth_pc' = GuardOutcome(request, auth_key)
    /\ auth_status' = CASE GuardOutcome(request, auth_key) = "unauthorized" -> 401
                        [] GuardOutcome(request, auth_key) = "raised" -> 500
                        [] OTHER -> auth_status
    /\ UNCHANGED <<auth_key, auth_next_calls>>
    /\ UNCHANGED notAuthVars

\* lines 25, 29, 43: return await call_next(request)
CallNext ==
    /\ auth_pc = "call_next"
    /\ auth_next_calls' = auth_next_calls + 1
    /\ auth_status' = 200
    /\ auth_pc' = "returned"
    /\ UNCHANGED <<auth_key, auth_request>>
    /\ UNCHANGED notAuthVars

NextAuth ==
    \/ \E path \in AuthPaths :
           \E x \in HeaderOf(StringsUpTo(MaxHeader - 1)),
              a \in HeaderOf(StringsUpTo(MaxHeader)) :
               ApiKeyGuard([path |-> path, x_api_key |-> x, authorization |-> a])
    \/ CallNext

InitGuard ==
    /\ InitCore
    /\ InitCompose
    /\ InitExtract
    /\ InitErr
    /\ InitStat
    /\ InitRate
    /\ auth_key \in ServiceKeys
    /\ auth_request = NoAuthRequest
    /\ auth_pc = "idle"
    /\ auth_status = 0
    /\ auth_next_calls = 0

SpecAuth == InitGuard /\ [][NextAuth]_vars

\* ------------------------------------------- composing the chat prompt
\* The content of a message is a sequence of pieces of text.  A user turn is
\* plain English, holds a French character (FRENCH_CHARS), or holds a French
\* question word (FRENCH_PATTERNS).  A system turn is plain, is the text of
\* FRENCH_SYSTEM_PROMPT (which holds the word "français"), or holds the
\* characters that helpers.py line 61 looks for.
PlainText == "plain"
FrenchChar == "accented"
FrenchPattern == "comment"
FRENCH_SYSTEM_PROMPT == "Vous etes un assistant ... Repondez TOUJOURS en francais."
DetectedMarker == "fran(sqrt)(sharp-s)ais"
ToolsDescription == "tools_description"
JsonInstruction == "json_instruction"

UserContents == {<<PlainText>>, <<FrenchChar>>, <<FrenchPattern>>}
SystemContents == {<<PlainText>>, <<FRENCH_SYSTEM_PROMPT>>, <<DetectedMarker>>}

PayloadMessage ==
    [role : {"user"}, content : UserContents]
        \cup [role : {"system"}, content : SystemContents]

RECURSIVE MessageLists(_)
MessageLists(n) ==
    IF n = 0 THEN {<<>>}
    ELSE MessageLists(n - 1)
             \cup {Append(l, m) : l \in {k \in MessageLists(n - 1) : Len(k) = n - 1},
                                  m \in PayloadMessage}

PieceIn(content, pieces) == \E i \in 1..Len(content) : content[i] \in pieces

\* helpers.py lines 27-55
is_french_request(messages) ==
    \E i \in 1..Len(messages) :
        /\ messages[i].role = "user"
        /\ PieceIn(messages[i].content, {FrenchChar, FrenchPattern})

\* helpers.py lines 58-64: the text searched for is not the word "français"
has_french_system_prompt(messages) ==
    \E i \in 1..Len(messages) :
        /\ messages[i].role = "system"
        /\ PieceIn(messages[i].content, {DetectedMarker})

\* chat() works on a list of dict objects.  An element of the local list is
\* either the caller's dict number ref of payload["messages"] (ref > 0) or a
\* dict made by chat() itself (ref = 0, with its own role and content).
CallerDict(i) == [ref |-> i, role |-> "", content |-> <<>>]
OwnDict(role, content) == [ref |-> 0, role |-> role, content |-> content]

\* the messages a local list denotes, given the caller's dicts
View(heap, local) ==
    [i \in 1..Len(local) |->
        IF local[i].ref > 0 THEN heap[local[i].ref]
        ELSE [role |-> local[i].role, content |-> local[i].content]]

\* line 231: messages = payload.get("messages", []), the caller's own list
LocalOf(heap) == [i \in 1..Len(heap) |-> CallerDict(i)]

\* lines 245-246 on the local list
LocaleStep(heap, local) ==
    IF is_french_request(View(heap, local)) /\ ~has_french_system_prompt(View(heap, local))
    THEN <<OwnDict("system", <<FRENCH_SYSTEM_PROMPT>>)>> \o local
    ELSE local

\* lines 245-246 as a function from message lists to message lists
InjectLocale(messages) ==
    IF is_french_request(messages) /\ ~has_french_system_prompt(messages)
    THEN <<[role |-> "system", content |-> <<FRENCH_SYSTEM_PROMPT>>]>> \o messages
    ELSE messages

LastSystem(heap, local) ==
    LET idx == {i \in 1..Len(local) : View(heap, local)[i].role = "system"}
    IN  IF idx = {} THEN 0 ELSE CHOOSE i \in idx : \A j \in idx : j <= i

\* lines 260-267 and 279-284: the instruction is written into the last
\* system dict itself, or a new system dict is put in front of a new list
AddToSystem(st, piece) ==
    LET k == LastSystem(st.heap, st.local)
    IN  IF k = 0
        THEN [st EXCEPT !.local = <<OwnDict("system", <<piece>>)>> \o st.local]
        ELSE IF st.local[k].ref > 0
        THEN [st EXCEPT !.heap[st.local[k].ref].content = Append(@, piece)]
        ELSE [st EXCEPT !.local[k].content = Append(@, piece)]

\* lines 231-285: the caller's dicts and the local list when the chat
\* template is applied
Composed(payload) ==
    LET s0 == [heap |-> payload.messages,
               local |-> LocaleStep(payload.messages, LocalOf(payload.messages))]
        s1 == IF payload.tools THEN AddToSystem(s0, ToolsDescription) ELSE s0
        s2 == IF payload.json_object THEN AddToSystem(s1, JsonInstruction) ELSE s1
    IN  s2

\* chat(payload), lines 231-293
ComposePrompt ==
    /\ cm_payload.messages # <<>>
    /\ Len(cm_prompts) < MaxChats
    /\ cm_payload' = [cm_payload EXCEPT !.messages = Composed(cm_payload).heap]
    /\ cm_prompts' = Append(cm_prompts,
                            View(Composed(cm_payload).heap, Composed(cm_payload).local))
    /\ UNCHANGED <<cm_before, loc_history>>
    /\ UNCHANGED notComposeVars

\* lines 245-246 applied to the list the previous application returned
LocaleInjection ==
    /\ loc_history # <<>>
    /\ Len(loc_history) <= MaxChats
    /\ loc_history' = Append(loc_history, InjectLocale(loc_history[Len(loc_history)]))
    /\ UNCHANGED <<cm_payload, cm_before, cm_prompts>>
    /\ UNCHANGED notComposeVars

NextCompose ==
    \/ ComposePrompt
    \/ LocaleInjection

InitPayload ==
    /\ InitCore
    /\ InitExtract
    /\ InitErr
    /\ InitStat
    /\ InitRate
    /\ InitAuth
    /\ cm_payload \in [messages : MessageLists(MaxMessages) \ {<<>>},
                       tools : BOOLEAN, json_object : BOOLEAN]
    /\ cm_before = cm_payload.messages
    /\ cm_prompts = <<>>
    /\ loc_history = <<cm_payload.messages>>

SpecCompose == InitPayload /\ [][NextCompose]_vars

\* ------------------------------------------- _extract_json_from_text
\* The text is a sequence of characters and words: the two braces, a blank,
\* Key (a member name with its colon, "k":), Junk (a word that is no JSON),
\* Fence (three backquotes) and the two reasoning tags.  The JSON objects of
\* these texts are {} and {"k": object}, blanks allowed between the parts.
Key == "k:"
Fence == "<fence>"
ThinkOpen == "<think>"
ThinkClose == "</think>"

EmptyObject == <<LBrace, RBrace>>
NestedOnce == <<LBrace, Key>> \o EmptyObject \o <<RBrace>>
NestedTwice == <<LBrace, Key>> \o NestedOnce \o <<RBrace>>

Parts ==
    {EmptyObject, NestedOnce, NestedTwice, <<LBrace, Junk, RBrace>>,
     <<LBrace>>, <<RBrace>>, <<Junk>>, <<Blank>>, <<Fence>>,
     <<ThinkOpen>>, <<ThinkClose>>}

ExtractTexts == {Flatten(ps) : ps \in UNION {[1..k -> Parts] : k \in 0..MaxParts}}

\* len() of a text in characters
RECURSIVE CharLen(_)
CharLen(text) ==
    IF text = <<>> THEN 0
    ELSE CharLen(Tail(text))
             + (CASE Head(text) \in {LBrace, RBrace, Blank} -> 1
                  [] Head(text) = Fence -> 3
                  [] Head(text) = ThinkOpen -> 7
                  [] Head(text) = ThinkClose -> 8
                  [] OTHER -> 4)

\* json.loads returns for an object and raises JSONDecodeError otherwise
RECURSIVE IsObject(_)
IsObject(text) ==
    \/ text = EmptyObject
    \/ /\ Len(text) >= 5
       /\ text[1] = LBrace
       /\ text[2] = Key
       /\ text[Len(text)] = RBrace
       /\ IsObject(SubSeq(text, 3, Len(text) - 1))

JsonParses(text) == IsObject(SelectSeq(text, LAMBDA c : c # Blank))

\* lines 600-605: re.sub of <think[^>]*>.*?</think[^>]*> by the empty string
RECURSIVE RemoveThink(_)
RemoveThink(text) ==
    LET opens == {i \in 1..Len(text) : text[i] = ThinkOpen}
        closes == {j \in 1..Len(text) : text[j] = ThinkClose /\ j > Least(opens)}
    IN  IF opens = {} THEN text
        ELSE IF closes = {} THEN text
        ELSE SubSeq(text, 1, Least(opens) - 1)
                 \o RemoveThink(SubSeq(text, Least(closes) + 1, Len(text)))

\* lines 609-614: what follows the first closing tag that is left, stripped
AfterThinkClose(text) ==
    LET closes == {j \in 1..Len(text) : text[j] = ThinkClose}
    IN  IF closes = {} THEN text
        ELSE Strip(SubSeq(text, Least(closes) + 1, Len(text)))

\* lines 596-614
CleanedText(text) == AfterThinkClose(RemoveThink(text))

\* \s* from position i on: the first position that holds no blank
SkipBlanks(text, i) ==
    Least({j \in i..(Len(text) + 1) : j = Len(text) + 1 \/ text[j] # Blank})

FenceFollows(text, i) ==
    SkipBlanks(text, i) <= Len(text) /\ text[SkipBlanks(text, i)] = Fence

\* line 617: re.search of a fence, blanks, a brace, as little as possible up
\* to a brace that blanks and a fence follow; the capture (from brace to
\* brace), or the empty text when nothing matches
FencedCapture(text) ==
    LET starts == {q \in 2..Len(text) :
                      /\ text[q] = LBrace
                      /\ \E f \in 1..(q - 1) : text[f] = Fence /\ SkipBlanks(text, f + 1) = q
                      /\ \E j \in (q + 1)..Len(text) :
                             text[j] = RBrace /\ FenceFollows(text, j + 1)}
    IN  IF starts = {} THEN <<>>
        ELSE SubSeq(text, Least(starts),
                    Least({j \in (Least(starts) + 1)..Len(text) :
                              text[j] = RBrace /\ FenceFollows(text, j + 1)}))

\* opening minus closing braces in text[a..b]
Balance(text, a, b) ==
    Cardinality({i \in a..b : text[i] = LBrace}) - Cardinality({i \in a..b : text[i] = RBrace})

\* the first position from p on where the braces opened since p are closed,
\* 0 when there is none
MatchingBrace(text, p) ==
    LET ends == {j \in p..Len(text) : Balance(text, p, j) = 0}
    IN  IF ends = {} THEN 0 ELSE Least(ends)

\* line 628: a match of \{[^{}]*(?:\{[^{}]*\}[^{}]*)*\} at the brace at p
\* ends at the matching brace, and there is one only when no brace is opened
\* inside a brace opened inside
PatternEnd(text, p) ==
    IF MatchingBrace(text, p) = 0 THEN 0
    ELSE IF \A i \in p..MatchingBrace(text, p) : Balance(text, p, i) <= 2
    THEN MatchingBrace(text, p)
    ELSE 0

\* line 629: re.finditer, the matches from left to right without overlap
RECURSIVE PatternMatches(_, _)
PatternMatches(text, p) ==
    IF p > Len(text) THEN <<>>
    ELSE IF text[p] = LBrace /\ PatternEnd(text, p) > 0
    THEN <<SubSeq(text, p, PatternEnd(text, p))>>
             \o PatternMatches(text, PatternEnd(text, p) + 1)
    ELSE PatternMatches(text, p + 1)

\* lines 632-643: the first of the longest candidates that json.loads
\* accepts, the empty text when there is none
RECURSIVE BestOf(_, _)
BestOf(candidates, best) ==
    IF candidates = <<>> THEN best
    ELSE IF JsonParses(Head(candidates)) /\ CharLen(Head(candidates)) > CharLen(best)
    THEN BestOf(Tail(candidates), Head(candidates))
    ELSE BestOf(Tail(candidates), best)

\* lines 650-665: from the first opening brace to its matching brace
BraceMatched(text) ==
    LET opens == {i \in 1..Len(text) : text[i] = LBrace}
    IN  IF opens = {} \/ MatchingBrace(text, Least(opens)) = 0 THEN <<>>
        ELSE SubSeq(text, Least(opens), MatchingBrace(text, Least(opens)))

\* lines 592-669
ExtractJsonFromText(text) ==
    LET cleaned == CleanedText(text)
        best == BestOf(PatternMatches(cleaned, 1), <<>>)
    IN  IF FencedCapture(cleaned) # <<>> /\ JsonParses(FencedCapture(cleaned))
        THEN Strip(FencedCapture(cleaned))
        ELSE IF best # <<>> THEN Strip(best)
        ELSE IF BraceMatched(cleaned) # <<>> /\ JsonParses(BraceMatched(cleaned))
        THEN Strip(BraceMatched(cleaned))
        ELSE Strip(cleaned)

\* _extract_json_from_text(text)
ExtractCall ==
    /\ ex_pc = "created"
    /\ ex_result' = ExtractJsonFromText(ex_text)
    /\ ex_pc' = "done"
    /\ UNCHANGED ex_text
    /\ UNCHANGED notExtractVars

NextExtract == ExtractCall

InitExtraction ==
    /\ InitCore
    /\ InitErr
    /\ InitStat
    /\ InitRate
    /\ InitAuth
    /\ InitCompose
    /\ ex_text \in ExtractTexts
    /\ ex_pc = "created"
    /\ ex_result = <<>>

SpecExtract == InitExtraction /\ [][NextExtract]_vars

\* ================================================================ claims
InInitialize(t) == pc[t] \in {"fast_initialized", "fast_model", "acquire"}

InLoadSection(t) ==
    pc[t] \in {"load_tokenizer", "load_model", "mark_initialized", "except_model",
               "except_tokenizer", "finally_ok", "finally_raise"}

\* C1: of the threads that call initialize_model(force_reload=False) while the
\* engine is Uninitialized, at most one executes the load, whether that load
\* succeeds or fails.
C1_SingleLoadAmongCallers == Cardinality({t \in cohort : loaded[t]}) <= 1

\* C2: at most one thread is inside the load section of initialize_model.
C2_OneLoaderAtATime == Cardinality({t \in Threads : InLoadSection(t)}) <= 1

C2_Witness ==
    \E t, u \in Threads :
        /\ InLoadSection(t)
        /\ pc[u] = "acquire"
        /\ force_reload[t] # force_reload[u]

\* C3: in every reachable state the model handle and the tokenizer handle are
\* non-null if and only if the engine is Ready.
C3_HandlesIffReady == (model # None <=> Ready) /\ (tokenizer # None <=> Ready)

\* C4: a chat request passes its initialization check and goes on to prompt
\* composition only in a state where the engine is Ready.
C4_ChatOnlyWhenReady ==
    [][\A t \in Threads :
          (pc[t] # "chat_compose" /\ pc'[t] = "chat_compose") => Ready]_vars

\* C5: a load begins only after the previous handles are cleared and
\* _initialized is reset, it ends Ready or Failed, a new handle is installed
\* only while both old handles are gone, and the two installed handles always
\* come from the same load.
C5_ReloadClearsBeforeInstall ==
    [][/\ (~_initializing /\ _initializing') =>
              (model = None /\ tokenizer = None /\ ~_initialized)
       /\ (tokenizer' # tokenizer /\ tokenizer' # None) =>
              (_initializing /\ ~_initialized /\ model = None /\ tokenizer = None)
       /\ (model' # model /\ model' # None) =>
              (_initializing /\ ~_initialized /\ model = None /\ tokenizer = model')
       /\ (model' # None /\ tokenizer' # None) => model' = tokenizer'
       /\ (_initializing /\ ~_initializing') => (Ready' \/ Failed')]_vars

C5_Witness ==
    \E t \in Threads :
        /\ op[t] = "init" /\ force_reload[t] /\ startedReady[t] /\ loaded[t]
        /\ pc[t] = "idle" /\ result[t] = "ok"
        /\ loads = 2 /\ model = 2 /\ tokenizer = 2 /\ Ready

\* C6: a caller of initialize_model that is blocked while another thread's
\* initialization is in flight never waits more than
\* MODEL_INIT_TIMEOUT_SECONDS polling intervals.
C6_WaitIsBounded == \A t \in Threads : waited[t] <= MODEL_INIT_TIMEOUT_SECONDS

C8_ReadyInitIsNoOp ==
    [][\A t \in Threads :
          (InInitialize(t) /\ ~force_reload[t] /\ Ready /\ pc'[t] # pc[t]) =>
              /\ UNCHANGED <<globals, loads, _init_lock>>
              /\ pc'[t] = IF pc[t] = "fast_initialized"
                          THEN "fast_model" ELSE AfterInit(t, "ok")]_vars

C8_Witness ==
    \E t \in Threads :
        /\ op[t] = "init" /\ ~force_reload[t] /\ startedReady[t] /\ ~loaded[t]
        /\ pc[t] = "idle" /\ result[t] = "ok" /\ Ready

\* C9: is_model_ready returns True exactly when _initialized is True and model
\* and tokenizer are non-null at the moment it holds the lock, and then no
\* load is in progress: it never reports a partially loaded engine as ready.
C9_ProbeReportsLoadedEngine ==
    [][\A t \in Threads :
          (pc[t] = "ready_acquire" /\ pc'[t] = "idle") =>
              /\ result'[t] \in {"true", "false"}
              /\ result'[t] = "true" <=>
                     (_initialized /\ model # None /\ tokenizer # None)
              /\ result'[t] = "true" =>
                     (Ready /\ \A u \in Threads : ~InLoadSection(u))]_vars

C9_Witness ==
    \E t, u \in Threads :
        /\ op[t] = "ready" /\ pc[t] = "idle" /\ result[t] = "true"
        /\ op[u] = "ready" /\ pc[u] = "idle" /\ result[u] = "false"

\* C10: every finished _chat_stream sequence holds exactly one terminal chunk
\* (a chunk whose finish_reason is non-null).
TerminalChunks ==
    {i \in DOMAIN emitted :
        emitted[i].kind = "chunk" /\ emitted[i].finish_reason # "null"}

C10_ExactlyOneTerminalChunk ==
    stream_pc = "finished" => Cardinality(TerminalChunks) = 1

\* C11: under fair scheduling of the worker and the consumer every streaming
\* job terminates: the generator of _chat_stream eventually finishes, also
\* when model.generate raises in the worker.
C11_StreamTerminates == <>(stream_pc = "finished")

\* C12: the content chunks of a stream carry the worker's text increments in
\* generation order, none lost or duplicated; once the terminal chunk is
\* emitted the content deltas are exactly the increments the worker wrote;
\* every content chunk precedes the terminal chunk and "data: [DONE]" is the
\* last frame, right after the terminal chunk.
IsContent(c) == c.kind = "chunk" /\ c.finish_reason = "null"

ContentDeltas ==
    LET chunks == SelectSeq(emitted, IsContent)
    IN  [i \in 1..Len(chunks) |-> chunks[i].delta]

Written == [i \in 1..produced |-> i]

C12_ChunksInGenerationOrder ==
    /\ Len(ContentDeltas) <= produced
    /\ ContentDeltas = SubSeq(Written, 1, Len(ContentDeltas))
    /\ ContentDeltas = generated_text
    /\ TerminalChunks # {} => ContentDeltas = Written
    /\ \A i, j \in DOMAIN emitted :
           IsContent(emitted[i]) /\ j \in TerminalChunks => i < j
    /\ \A i \in DOMAIN emitted :
           emitted[i].kind = "done" =>
               /\ i = Len(emitted)
               /\ i - 1 \in TerminalChunks

C12_Witness ==
    /\ stream_pc = "finished"
    /\ produced >= 2
    /\ Len(emitted) = produced + 2
    /\ emitted[Len(emitted)].kind = "done"

\* C13: in every streaming job, a cancelled one included, the worker thread
\* has ended when the finally block counts tokens, records the statistics
\* and releases the inputs; and a join that is reached always returns (the
\* worker never stays blocked on the queue once the consumer stops reading).
WorkerEnded == worker_pc \in {"done", "failed"}

C13_JoinedBeforeRecording ==
    /\ [](stream_pc = "finally_record" => WorkerEnded)
    /\ [][stats' # stats => WorkerEnded /\ WorkerEnded']_vars
    /\ (stream_pc = "finally_join" ~> stream_pc = "finally_record")

C13_Witness ==
    /\ exc_pending
    /\ stats = 1
    /\ worker_pc = "done"
    /\ Len(generated_text) < produced

\* C14: the finish_reason of the terminal chunk of a stream is the finish
\* reason computed for the job ("length" when completion_tokens >=
\* max_tokens, else "stop", no tool call being parsed from a stream) and
\* equals the finish_reason recorded in the job's statistics.
C14_TerminalChunkCarriesFinishReason ==
    \A i \in TerminalChunks :
        /\ emitted[i].finish_reason = finish_reason
        /\ emitted[i].finish_reason =
               StreamFinishReason(completion_tokens, max_tokens)

\* C15: a response built by _generate_response has finish_reason
\* "tool_calls" exactly when a call to a declared tool was parsed, otherwise
\* "length" exactly when completion_tokens >= max_tokens, otherwise "stop";
\* the statistics record the same value and usage.total_tokens is
\* prompt_tokens + completion_tokens.
C15_FinishReasonPrecedence ==
    resp_pc = "finished" =>
        LET called == response.tool_calls # <<>>
            full == response.completion_tokens >= max_tokens
        IN  /\ response.finish_reason \in {"tool_calls", "length", "stop"}
            /\ response.finish_reason = "tool_calls" <=> called
            /\ response.finish_reason = "length" <=> (~called /\ full)
            /\ response.finish_reason = "stop" <=> (~called /\ ~full)
            /\ called => \A k \in DOMAIN response.tool_calls :
                             response.tool_calls[k].name \in tools
            /\ resp_stats.finish_reason = response.finish_reason
            /\ response.completion_tokens = Len(generated_ids)
            /\ response.total_tokens =
                   response.prompt_tokens + response.completion_tokens
            /\ resp_stats.total_tokens = response.total_tokens

C15_Witness ==
    /\ resp_pc = "finished"
    /\ response.finish_reason = "tool_calls"
    /\ response.completion_tokens >= max_tokens
    /\ response.total_tokens > response.completion_tokens

\* C16: for the same generation of a deterministic engine, the
\* completion_tokens of a stream read to its end (the accumulated text
\* encoded again) equal the completion_tokens of the non-streaming path (the
\* number of generated ids), also when the generation ends with an
\* end-of-sequence token, and both paths derive the same length/stop reason.
BlockingCompletionTokens == Len(GeneratedIds(produced, gen_eos))

C16_SameCompletionTokens ==
    (stats = 1 /\ ~exc_pending /\ worker_pc = "done") =>
        /\ completion_tokens = BlockingCompletionTokens
        /\ finish_reason =
               FinishReason(<<>>, BlockingCompletionTokens, max_tokens)

\* C17: model.generate is never called by the event-loop thread; every
\* generation, streamed or not, runs on a worker thread of its own.
C17_GenerateOffEventLoop == engine_caller # "event_loop"

\* C18: a generation job started on a Ready engine uses the model and the
\* tokenizer of one and the same load from its start to its end and never
\* uses a cleared (None) handle, whatever initialize_model does meanwhile.
C18_StableHandles ==
    started_ready =>
        /\ None \notin handles_used
        /\ Cardinality(handles_used) <= 1

\* C19: _parse_tool_calls returns only calls to declared tools; a candidate
\* that does not parse or names an undeclared tool is skipped without effect
\* on the other candidates, the valid candidates come in their order of
\* appearance, and None is returned when no candidate is valid. A candidate
\* is a <tool_call>...</tool_call> block of the text; a well-formed block
\* holding a call to a declared tool is a valid candidate.
IsTaggedCall(text, p, declared) ==
    /\ p + 4 <= Len(text)
    /\ text[p] = OpenTag
    /\ text[p + 1] = LBrace
    /\ text[p + 2] \in declared
    /\ text[p + 3] = RBrace
    /\ text[p + 4] = CloseTag

ValidTaggedCalls(text, declared) ==
    LET at == SelectSeq([p \in 1..Len(text) |-> p],
                        LAMBDA p : IsTaggedCall(text, p, declared))
    IN  [i \in 1..Len(at) |-> text[at[i] + 2]]

ReturnedNames == [i \in 1..Len(response.tool_calls) |-> response.tool_calls[i].name]

C19_ValidCandidatesReturned ==
    resp_pc = "finished" =>
        /\ \A i \in DOMAIN ReturnedNames : ReturnedNames[i] \in tools
        /\ ValidTaggedCalls(raw_text, tools) # <<>> =>
               ReturnedNames = ValidTaggedCalls(raw_text, tools)

\* C20: tool-call parsing and JSON extraction never fail a request whose
\* generation succeeded: _generate_response fails only when model.generate
\* raised, and when no valid tool call is found the response carries the
\* text as plain content with finish_reason "length" or "stop".
C20_PostProcessingNeverFails ==
    /\ resp_pc = "failed" => resp_error = "generate"
    /\ (resp_pc = "finished" /\ response.tool_calls = <<>>) =>
           /\ response.finish_reason \in {"length", "stop"}
           /\ response.content \in {raw_text, ExtractJson(raw_text).text}

C22_EveryRequestRecorded ==
    resp_pc \in {"finished", "failed"} => resp_stats # NoStats

\* C23: StatsTracker is thread-safe. Whenever no call is inside the tracker,
\* with N record_request calls completed since the last reset,
\* total_requests is N, the three token totals are the sums over those
\* records, the per-model and per-finish-reason counts each sum to N and
\* recent_requests holds min(N, 100) entries; and what get_stats returns is
\* never a half-applied record.
RECURSIVE SumOver(_, _)
SumOver(S, f) ==
    IF S = {} THEN 0
    ELSE LET x == CHOOSE x \in S : TRUE IN f[x] + SumOver(S \ {x}, f)

CompletedRecords == SumOver(RequestKinds, st_completed)

C23_RecordsAppliedAtomically ==
    /\ st_lock = NoThread =>
           /\ st_stats.total_requests = CompletedRecords
           /\ st_stats.total_prompt_tokens = SumOver(RequestKinds,
                  [k \in RequestKinds |-> st_completed[k] * k.prompt_tokens])
           /\ st_stats.total_completion_tokens = SumOver(RequestKinds,
                  [k \in RequestKinds |-> st_completed[k] * k.completion_tokens])
           /\ st_stats.total_tokens = SumOver(RequestKinds,
                  [k \in RequestKinds |-> st_completed[k] * k.total_tokens])
           /\ \A m \in StatModels :
                  st_stats.requests_by_model[m] = SumOver(RequestKinds,
                      [k \in RequestKinds |->
                          IF k.model = m THEN st_completed[k] ELSE 0])
           /\ SumOver(StatModels, st_stats.requests_by_model) = CompletedRecords
           /\ SumOver(FinishReasons, st_stats.finish_reasons) = CompletedRecords
           /\ Len(st_stats.recent_requests) =
                  Smaller(CompletedRecords, RECENT_MAXLEN)
    /\ \A t \in Threads :
           st_result[t].taken =>
               LET r == st_result[t]
               IN  /\ r.total_tokens =
                          r.total_prompt_tokens + r.total_completion_tokens
                   /\ SumOver(StatModels, r.requests_by_model) = r.total_requests
                   /\ SumOver(StatModels, r.tokens_by_model) = r.total_tokens
                   /\ SumOver(FinishReasons, r.finish_reasons) = r.total_requests
                   /\ r.recent_requests_count =
                          Smaller(r.total_requests, RECENT_MAXLEN)

C23_Witness ==
    \E t \in Threads :
        /\ st_result[t].taken
        /\ st_result[t].total_requests = RECENT_MAXLEN + 1
        /\ st_result[t].recent_requests_count = RECENT_MAXLEN
        /\ \A m \in StatModels : st_result[t].requests_by_model[m] > 0

\* the allowed requests of a log that fall in the closed window [from, from + width]
WindowCount(log, from, width) ==
    Cardinality({i \in 1..Len(log) : from <= log[i] /\ log[i] <= from + width})

\* the decision as a function of the IP's own allowed requests alone
OwnAllowed(log, now) ==
    /\ WindowCount(log, now - HourSeconds, HourSeconds) < RATE_LIMIT_REQUESTS_PER_HOUR
    /\ WindowCount(log, now - MinuteSeconds, MinuteSeconds) < RATE_LIMIT_REQUESTS_PER_MINUTE

\* the allowed times of an IP are in order, so a window of the given width
\* holds more than limit of them exactly when some entry and the one limit
\* places later are at most width apart
WithinLimit(log, width, limit) ==
    \A i \in 1..Len(log) :
        i + limit <= Len(log) => log[i + limit] - log[i] > width

WindowsBounded ==
    \A ip \in ClientIps :
        /\ \A i \in 1..Len(rl_allowed[ip]) - 1 : rl_allowed[ip][i] <= rl_allowed[ip][i + 1]
        /\ WithinLimit(rl_allowed[ip], MinuteSeconds, RATE_LIMIT_REQUESTS_PER_MINUTE)
        /\ WithinLimit(rl_allowed[ip], HourSeconds, RATE_LIMIT_REQUESTS_PER_HOUR)

\* C24: for every client IP, the allowed requests in any 60-second window
\* never exceed RATE_LIMIT_REQUESTS_PER_MINUTE and those in any 3600-second
\* window never exceed RATE_LIMIT_REQUESTS_PER_HOUR, and the decision for an
\* IP is a function of that IP's own allowed requests, whatever the other
\* IPs sent and whatever the periodic cleanup removed.
C24_LimitsHoldPerIp ==
    /\ []WindowsBounded
    /\ [][\A ip \in ClientIps : \A path \in RatePaths \ PublicRatePaths :
              RateLimitRequest(ip, path) =>
                  (rl_last'.called_next <=> OwnAllowed(rl_allowed[ip], rl_now))]_vars

\* an IP is rejected at its hourly limit after another IP was served and the
\* cleanup has run
C24_Witness ==
    /\ rl_last.status = 429
    /\ Len(rl_allowed[rl_last.ip]) = RATE_LIMIT_REQUESTS_PER_HOUR
    /\ \E other \in ClientIps \ {rl_last.ip} : rl_allowed[other] # <<>>
    /\ rl_last_cleanup > 0

\* the number of entries of a deque that equal a given time
EntriesAt(requests, time) ==
    Cardinality({i \in 1..Len(requests) : requests[i] = time})

IsSuffix(short, long) ==
    /\ Len(short) <= Len(long)
    /\ short = SubSeq(long, Len(long) - Len(short) + 1, Len(long))

\* C28: check_rate_limit records the time of a request exactly when it
\* returns allowed; a rejected check adds no entry to the IP's record, which
\* holds allowed times only, and leaves every later decision for that IP as
\* it was, so rejected attempts never extend the limited period.
C28_OnlyAllowedRequestsRecorded ==
    /\ [](\A ip \in DOMAIN rl_requests : IsSuffix(rl_requests[ip], rl_allowed[ip]))
    /\ [][\A ip \in ClientIps : \A path \in RatePaths \ PublicRatePaths :
              RateLimitRequest(ip, path) =>
                  /\ EntriesAt(rl_requests'[ip], rl_now) =
                         EntriesAt(RequestsOf(rl_requests, ip), rl_now)
                             + (IF rl_last'.called_next THEN 1 ELSE 0)
                  /\ ~rl_last'.called_next =>
                         /\ Len(rl_requests'[ip]) <= Len(RequestsOf(rl_requests, ip))
                         /\ \A d \in TimeSteps \cup {0} :
                                CheckedAllowed(ip, rl_now + d)'
                                    = CheckedAllowed(ip, rl_now + d)]_vars

\* a request was rejected at the per-minute limit
C28_Witness ==
    /\ rl_last.status = 429
    /\ Len(RecentRequests(RequestsOf(rl_requests, rl_last.ip), rl_now))
           = RATE_LIMIT_REQUESTS_PER_MINUTE
    /\ Len(RequestsOf(rl_requests, rl_last.ip)) < RATE_LIMIT_REQUESTS_PER_HOUR

\* the request has left the middleware
GuardDone == auth_pc \in {"returned", "unauthorized", "raised"}

\* the key the request presents: the x-api-key header, or without one the
\* text after "Bearer " in the authorization header, surrounding blanks apart
PresentedKey(request) ==
    IF HeaderText(request.x_api_key) # <<>> THEN HeaderText(request.x_api_key)
    ELSE IF StartsWithBearer(HeaderText(request.authorization))
         THEN Strip(Tail(HeaderText(request.authorization)))
         ELSE <<>>

MayPass(request, key) ==
    \/ request.path \in PUBLIC_PATHS
    \/ key = <<>>
    \/ PresentedKey(request) # <<>> /\ PresentedKey(request) = key

\* C25: api_key_guard invokes the next handler exactly once if and only if
\* the path is public, or no service API key is configured, or the request
\* presents a key equal to the configured key; in every other case it
\* answers 401 and the next handler is never invoked.
C25_NextHandlerIffAuthorized ==
    /\ auth_next_calls <= 1
    /\ GuardDone =>
           IF MayPass(auth_request, auth_key)
           THEN auth_next_calls = 1
           ELSE auth_status = 401 /\ auth_next_calls = 0


\* C26: locale injection adds at most one locale system turn and is
\* idempotent: applied to a list that already holds the injected
\* FRENCH_SYSTEM_PROMPT (the output of a first application) it adds nothing.
C26_LocaleInjectionIdempotent ==
    \A k \in 1..Len(loc_history) - 1 :
        /\ Len(loc_history[k + 1]) <= Len(loc_history[k]) + 1
        /\ k >= 2 => loc_history[k + 1] = loc_history[k]

\* C29: chat() does not modify its caller's payload: after the call the
\* messages of the payload, the list and the content of every message, are
\* what they were before, for every combination of locale, tool and
\* structured-output directives, and a second call with the same payload
\* object composes the same prompt as the first.
C29_PayloadUntouched ==
    /\ cm_payload.messages = cm_before
    /\ \A i, j \in 1..Len(cm_prompts) : cm_prompts[i] = cm_prompts[j]

\* the substrings of a text that start and end with a brace and parse as JSON
ParsingSubstrings(text) ==
    {c \in {SubSeq(text, i, j) : i \in 1..Len(text), j \in 1..Len(text)} :
        Len(c) >= 2 /\ c[1] = LBrace /\ c[Len(c)] = RBrace /\ JsonParses(c)}

\* C27: JSON extraction is an ordered chain in which the first success
\* wins: after the reasoning sections are stripped, a fenced block holding a
\* valid JSON object is returned; otherwise the longest balanced-brace
\* substring of the cleaned text that parses as JSON, whatever its nesting
\* depth (the candidate from the first brace is one of them); otherwise the
\* cleaned text.  Whenever a candidate parses, the returned string parses.
C27_FirstSuccessWins ==
    ex_pc = "done" =>
        LET cleaned == CleanedText(ex_text)
            fenced == FencedCapture(cleaned)
            parsing == ParsingSubstrings(cleaned)
        IN  IF fenced # <<>> /\ JsonParses(fenced) THEN ex_result = fenced
            ELSE IF parsing # {}
            THEN /\ ex_result \in parsing
                 /\ \A c \in parsing : CharLen(c) <= CharLen(ex_result)
            ELSE ex_result = Strip(cleaned)

\* C30: the readiness probe answers without waiting for a load: a thread
\* that has called is_model_ready can always take its step, whatever the
\* other threads are doing, and when it takes it while another thread is
\* inside the load section of initialize_model the answer is False.
C30_ProbeNeverWaits ==
    /\ [](\A t \in Threads : pc[t] = "ready_acquire" => ENABLED ReadyProbe(t))
    /\ [][\A t \in Threads :
              (pc[t] = "ready_acquire" /\ pc'[t] = "idle"
                  /\ \E u \in Threads \ {t} : InLoadSection(u)) =>
                  result'[t] = "false"]_vars

====
